---- MODULE Spec2Model ----
(***************************************************************************)
(* pvcusage: the usage aggregation / filter / limit pipeline               *)
(* (GetUsages, ParseFilter, FilterUsages, LimitTopN and their callers) and *)
(* the performance monitor: its start-up state machine (StartMonitoring,   *)
(* waitForPodReady), its life after that (collectMetrics, GetLatestMetrics,*)
(* Stop, side by side), and the naming of the diagnostic pod               *)
(* (CreatePerformancePod) with two Monitors in one namespace.              *)
(*                                                                         *)
(* Strings that the code inspects character by character (the filter      *)
(* expression) are sequences of one-character strings.  A float64          *)
(* percentage is an exact rational [num, den] in lowest terms: the model   *)
(* leaves out float64 rounding, nothing else.                              *)
(***************************************************************************)
EXTENDS Integers, Sequences, FiniteSets

\* ------------------------------------------------------------------ bounds
MaxFilterLen == 3
MaxRecs == 2
MaxNodes == 2
MaxTopN == 3
MaxPolls == 4

\* ------------------------------------------------------- generic helpers
RECURSIVE GCD(_, _)
GCD(a, b) == IF b = 0 THEN a ELSE GCD(b, a % b)

Min(a, b) == IF a < b THEN a ELSE b

SeqsUpTo(S, n) == UNION { [1..k -> S] : k \in 0..n }

\* -------------------------------------------------------------- data model
\* internal/pvc/types.go: a Volume of a node's stats summary.  PVCRef is a
\* pointer: NoRef is nil.
NoRef == [Namespace |-> "", Name |-> "<nil>"]

Volume(ref, cap, used, avail) ==
  [PVCRef |-> ref, CapacityBytes |-> cap, UsedBytes |-> used, AvailableBytes |-> avail]

\* float64(used) / float64(capacity) * 100, as an exact rational.
Percentage(used, cap) ==
  LET g == GCD(used * 100, cap)
  IN  [num |-> (used * 100) \div g, den |-> cap \div g]

\* The Usage literal GetUsages appends for a volume.
MakeUsage(vol) ==
  [Namespace      |-> vol.PVCRef.Namespace,
   PVC            |-> vol.PVCRef.Name,
   CapacityBytes  |-> vol.CapacityBytes,
   UsedBytes      |-> vol.UsedBytes,
   AvailableBytes |-> vol.AvailableBytes,
   PercentageUsed |-> Percentage(vol.UsedBytes, vol.CapacityBytes)]

\* Comparisons of a percentage with a float64 threshold (an integer here)
\* and with another percentage.
PctGT(p, v) == p.num > v * p.den
PctGE(p, v) == p.num >= v * p.den
PctLT(p, v) == p.num < v * p.den
PctLE(p, v) == p.num <= v * p.den
PctEQ(p, v) == p.num = v * p.den
PctGreater(p, q) == p.num * q.den > q.num * p.den

\* ------------------------------------------------------------ input sets
\* The volumes a node may report: 5% twice (VolA, VolB: two claims, two
\* capacities), 10% (VolC), 2.5% (VolD), a claim with capacity 0 (VolZ) and
\* a volume without a claim (VolN).
VolA  == Volume([Namespace |-> "ns1", Name |-> "a"], 20, 1, 19)
VolB  == Volume([Namespace |-> "ns2", Name |-> "b"], 40, 2, 38)
VolC  == Volume([Namespace |-> "ns1", Name |-> "b"], 20, 2, 18)
VolD  == Volume([Namespace |-> "ns2", Name |-> "a"], 40, 1, 39)
VolZ  == Volume([Namespace |-> "ns1", Name |-> "z"], 0, 0, 0)
VolN  == Volume(NoRef, 20, 1, 19)
Volumes == {VolA, VolB, VolC, VolD, VolZ, VolN}

\* A node's answer to GetSummary: an error, or a summary (pods, each a
\* sequence of volumes).
NodeReport(failed, pods) == [err |-> failed, pods |-> pods]

NodeReports ==
  { NodeReport(TRUE, <<>>),
    NodeReport(FALSE, <<>>),
    NodeReport(FALSE, << <<VolA>> >>),
    NodeReport(FALSE, << <<VolZ, VolC>> >>),
    NodeReport(FALSE, << <<VolN>>, <<VolB>> >>),
    NodeReport(FALSE, << <<VolD, VolA>>, <<>> >>) }

\* The cluster as the client sees it: GetNodes fails, or lists the nodes.
Clusters ==
  { [nodesErr |-> TRUE, nodes |-> <<>>] } \cup
  { [nodesErr |-> FALSE, nodes |-> ns] : ns \in SeqsUpTo(NodeReports, MaxNodes) }

NoCluster == [nodesErr |-> FALSE, nodes |-> <<>>]

\* Usage records handed to FilterUsages and LimitTopN directly.
UsageRecs == { MakeUsage(v) : v \in {VolA, VolB, VolC, VolD} }
UsageSeqs == SeqsUpTo(UsageRecs, MaxRecs)

\* Filter expressions: every text of at most MaxFilterLen characters.
Digits == {"5"}
Alphabet == {">", "<", "=", "x"} \cup Digits
FilterTexts == SeqsUpTo(Alphabet, MaxFilterLen)

\* The -filter values the table callers are run with.
CliFilters ==
  { <<>>, <<">", "5">>, <<">", "=", "5">>, <<"<", "5">>, <<"<", "=", "5">>,
    <<"=", "5">>, <<"5">>, <<"x">> }

Namespaces == {"", "ns1", "ns2"}
TopNs == (0 - 1)..MaxTopN

\* ------------------------------------------------------------ ParseFilter
DigitValue(c) == CASE c = "5" -> 5 [] OTHER -> 0

RECURSIVE DecimalValue(_)
DecimalValue(s) ==
  IF s = <<>> THEN 0
  ELSE 10 * DecimalValue(SubSeq(s, 1, Len(s) - 1)) + DigitValue(s[Len(s)])

ParseFloatLenient(s) ==
  IF \A i \in 1..Len(s) : s[i] \in Digits
  THEN [value |-> DecimalValue(s), err |-> FALSE]
  ELSE [value |-> 0, err |-> TRUE]

\* strconv.ParseFloat(s, 64) on texts over Alphabet: a non-empty run of
\* digits is its decimal value, every other text is a syntax error.
ParseFloat(s) ==
  IF s # <<>> /\ \A i \in 1..Len(s) : s[i] \in Digits
  THEN [value |-> DecimalValue(s), err |-> FALSE]
  ELSE [value |-> 0, err |-> TRUE]

ParseFilter(text) ==
  IF text = <<>> THEN [operator |-> <<>>, value |-> 0, err |-> FALSE]
  ELSE
    LET lead == text[1] \in {">", "<", "="}
        two  == lead /\ Len(text) > 1 /\ text[2] = "="
        operator == IF two THEN <<text[1], "=">>
                    ELSE IF lead THEN <<text[1]>>
                    ELSE <<">">>
        num == IF two THEN ParseFloat(SubSeq(text, 3, Len(text)))
               ELSE IF lead THEN ParseFloat(SubSeq(text, 2, Len(text)))
               ELSE ParseFloat(text)
    IN  IF num.err THEN [operator |-> <<>>, value |-> 0, err |-> TRUE]
        ELSE [operator |-> operator, value |-> num.value, err |-> FALSE]

\* ----------------------------------------------------------- FilterUsages
IncludeGEForGT(operator, pct, value) ==
  CASE operator = <<">">>      -> PctGE(pct, value)
    [] operator = <<">", "=">> -> PctGE(pct, value)
    [] operator = <<"<">>      -> PctLT(pct, value)
    [] operator = <<"<", "=">> -> PctLE(pct, value)
    [] operator = <<"=">>      -> PctEQ(pct, value)
    [] OTHER                   -> FALSE

\* The switch on operator: include starts false, an operator outside the
\* five cases leaves it false.
Include(operator, pct, value) ==
  CASE operator = <<">">>      -> PctGT(pct, value)
    [] operator = <<">", "=">> -> PctGE(pct, value)
    [] operator = <<"<">>      -> PctLT(pct, value)
    [] operator = <<"<", "=">> -> PctLE(pct, value)
    [] operator = <<"=">>      -> PctEQ(pct, value)
    [] OTHER                   -> FALSE

\* The loop `for _, u := range usages`, from the first element on.
RECURSIVE FilterLoop(_, _, _, _)
FilterLoop(us, operator, value, acc) ==
  IF us = <<>> THEN acc
  ELSE LET u == Head(us)
       IN  IF operator # <<>> /\ ~Include(operator, u.PercentageUsed, value)
           THEN FilterLoop(Tail(us), operator, value, acc)
           ELSE FilterLoop(Tail(us), operator, value, Append(acc, u))

FilterUsagesIgnoreError(us, text) ==
  LET p == ParseFilter(text)
  IN  IF p.err THEN [usages |-> us, err |-> FALSE]
      ELSE [usages |-> FilterLoop(us, p.operator, p.value, <<>>), err |-> FALSE]

FilterUsages(us, text) ==
  LET p == ParseFilter(text)
  IN  IF p.err THEN [usages |-> <<>>, err |-> TRUE]
      ELSE [usages |-> FilterLoop(us, p.operator, p.value, <<>>), err |-> FALSE]

\* -------------------------------------------------------------- LimitTopN
LimitTopNFromZero(us, n) ==
  IF n >= 0 /\ Len(us) > n THEN SubSeq(us, 1, n) ELSE us

LimitTopN(us, n) ==
  IF n > 0 /\ Len(us) > n THEN SubSeq(us, 1, n) ELSE us

\* -------------------------------------------------------------- GetUsages
EmitVolumeKeepZero(acc, vol) ==
  IF vol.PVCRef # NoRef
  THEN Append(acc, [MakeUsage([vol EXCEPT !.CapacityBytes = 1])
                      EXCEPT !.CapacityBytes = vol.CapacityBytes])
  ELSE acc

EmitVolumeOncePerClaim(acc, vol) ==
  IF vol.PVCRef # NoRef
  THEN IF \/ vol.CapacityBytes = 0
          \/ \E i \in 1..Len(acc) : /\ acc[i].Namespace = vol.PVCRef.Namespace
                                   /\ acc[i].PVC = vol.PVCRef.Name
       THEN acc ELSE Append(acc, MakeUsage(vol))
  ELSE acc

\* The body of `for _, vol := range pod.Volumes`.
EmitVolume(acc, vol) ==
  IF vol.PVCRef # NoRef
  THEN IF vol.CapacityBytes = 0 THEN acc ELSE Append(acc, MakeUsage(vol))
  ELSE acc

RECURSIVE VolumeLoop(_, _)
VolumeLoop(acc, vols) ==
  IF vols = <<>> THEN acc ELSE VolumeLoop(EmitVolume(acc, Head(vols)), Tail(vols))

RECURSIVE PodLoop(_, _)
PodLoop(acc, pods) ==
  IF pods = <<>> THEN acc ELSE PodLoop(VolumeLoop(acc, Head(pods)), Tail(pods))

RECURSIVE NodeLoopAbortOnError(_, _)
NodeLoopAbortOnError(acc, nodes) ==
  IF nodes = <<>> THEN acc
  ELSE IF Head(nodes).err THEN acc
  ELSE NodeLoopAbortOnError(PodLoop(acc, Head(nodes).pods), Tail(nodes))

\* `for _, node := range nodes`: a node whose GetSummary fails is skipped.
RECURSIVE NodeLoop(_, _)
NodeLoop(acc, nodes) ==
  IF nodes = <<>> THEN acc
  ELSE IF Head(nodes).err THEN NodeLoop(acc, Tail(nodes))
  ELSE NodeLoop(PodLoop(acc, Head(nodes).pods), Tail(nodes))

UsageLessAscending(a, b) == PctGreater(b.PercentageUsed, a.PercentageUsed)

\* The less function handed to sort.Slice.
UsageLess(a, b) == PctGreater(a.PercentageUsed, b.PercentageUsed)

IndexPermutations(n) == { f \in [1..n -> 1..n] : \A i, j \in 1..n : i # j => f[i] # f[j] }

\* sort.Slice: some permutation of s in which no later element is less than
\* an earlier one.  sort.Slice is not stable, so every such permutation is
\* a possible outcome.
SortSlice(s) ==
  { [i \in 1..Len(s) |-> s[f[i]]] : f \in
      { g \in IndexPermutations(Len(s)) :
          \A i, j \in 1..Len(s) : i < j => ~UsageLess(s[g[j]], s[g[i]]) } }

\* The results GetUsages can return for a cluster.
GetUsages(c) ==
  IF c.nodesErr THEN { [usages |-> <<>>, err |-> TRUE] }
  ELSE { [usages |-> s, err |-> FALSE] : s \in SortSlice(NodeLoop(<<>>, c.nodes)) }

\* -------------------------------------------------------- caller pipelines
\* What a caller does with GetUsages' records: FilterUsages, return on its
\* error, LimitTopN on what it kept, Show.
LimitThenFilter(us, text, n) ==
  LET f == FilterUsages(LimitTopN(us, n), text)
  IN  IF f.err THEN [err |-> TRUE, filtered |-> <<>>, limited |-> <<>>]
      ELSE [err |-> FALSE, filtered |-> f.usages, limited |-> f.usages]

FilterThenLimit(us, text, n) ==
  LET f == FilterUsages(us, text)
  IN  IF f.err THEN [err |-> TRUE, filtered |-> <<>>, limited |-> <<>>]
      ELSE [err |-> FALSE, filtered |-> f.usages, limited |-> LimitTopN(f.usages, n)]

\* updateTableWithNamespaceFilter's loop: with a namespace given, only its
\* records are kept.
RECURSIVE NamespaceLoop(_, _, _)
NamespaceLoop(us, ns, acc) ==
  IF us = <<>> THEN acc
  ELSE IF Head(us).Namespace = ns THEN NamespaceLoop(Tail(us), ns, Append(acc, Head(us)))
  ELSE NamespaceLoop(Tail(us), ns, acc)

NamespaceFiltered(us, ns) == IF ns # "" THEN NamespaceLoop(us, ns, <<>>) ELSE us

\* The legacy updateTable holds the same code inline: parseFilter, the
\* filter loop, then `if topN > 0 && len(filteredUsages) > topN`.
LegacyFilterThenLimit(us, text, n) ==
  LET p == ParseFilter(text)
      f == FilterLoop(us, p.operator, p.value, <<>>)
  IN  IF p.err THEN [err |-> TRUE, filtered |-> <<>>, limited |-> <<>>]
      ELSE [err |-> FALSE, filtered |-> f,
            limited |-> IF n > 0 /\ Len(f) > n THEN SubSeq(f, 1, n) ELSE f]

\* -------------------------------------------------------- StartMonitoring
\* `for attempt := 1; attempt <= 3; attempt++`
MaxAttemptsOneMore == 3 + 1

MaxAttempts == 3

\* What CreatePerformancePod returns: the created pod's name and no error,
\* or no name and an error.  Of an error StartMonitoring reads one thing:
\* whether its text contains "enough resource".
PerfPodName == "pvc-perf-monitor-data"

CreateResults ==
  { [name |-> PerfPodName, err |-> "nil"],
    [name |-> "", err |-> "not enough resource"],
    [name |-> "", err |-> "other"] }

IsResourceErrorAlways(e) == TRUE

\* strings.Contains(err.Error(), "enough resource")
IsResourceError(e) == e = "not enough resource"

FallbackAfterRetriesUnset == FALSE

\* `useFallback = true` once every attempt has failed.
FallbackAfterRetries == TRUE

\* What the Get of waitForPodReady returns: an error, or the pod with its
\* phase.
Phases == {"Pending", "Running", "Succeeded", "Failed", "Unknown"}

GetPodResults ==
  { [err |-> TRUE, phase |-> ""] } \cup { [err |-> FALSE, phase |-> ph] : ph \in Phases }

NoMonitor == [returned |-> FALSE, perfPod |-> "", useFallback |-> FALSE]

FallbackOnReadinessErrorUnset == FALSE

\* `useFallback = true` when waitForPodReady returned an error.
FallbackOnReadinessError == TRUE

\* ------------------------------------- collectMetrics, GetLatestMetrics, Stop
\* The cycles one run collects, and the ticks counted after the cancel.
MaxCycles == 2

MaxLateTicks == 2

\* The goroutines that call GetLatestMetrics.
Readers == {"r1", "r2"}

\* The fields of Metrics that a cycle derives from the cluster's answers;
\* Timestamp is time.Now(), which differs from cycle to cycle.
MakeMetrics(now, space, used, pct) ==
  [Timestamp |-> now, DiskSpace |-> space, DiskSpaceUsed |-> used,
   DiskSpacePct |-> pct]

\* A float64 as the fraction num / den; 0 / 0 is the NaN that dividing
\* zero by zero gives.
Float(num, den) == [num |-> num, den |-> den]

\* float64(used) / float64(total) * 100
UsedPct(used, total) == Float(100 * used, total)

\* `metrics: &Metrics{}`
ZeroMetrics == MakeMetrics(0, 0, 0, Float(0, 1))

\* What the Get of the claim returns: an error, or the claim with its
\* requested storage.
GetPVCResults ==
  { [err |-> TRUE, storage |-> 0], [err |-> FALSE, storage |-> 6] }

\* What GetLogs returns, as far as getMetricsFromPod looks at it: an error;
\* no bytes; bytes without a line between the markers ("unparsed"); bytes
\* with a line of fewer than six fields ("short"); bytes with a line of
\* six ("df"), of which the second to fourth are read by parseHumanSize and
\* the fifth, without its percent sign, by ParseFloat.
LogResult(kind, total, used, available, percent, percentErr) ==
  [kind |-> kind, total |-> total, used |-> used, available |-> available,
   percent |-> percent, percentErr |-> percentErr]

NoLine(kind) == LogResult(kind, 0, 0, 0, 0, FALSE)

LogResults ==
  { NoLine("error"), NoLine("empty"), NoLine("unparsed"),
    LogResult("df", 8, 2, 6, 25, FALSE) }

\* The same, with the lines that a parse leaves aside.
LogInputs ==
  { NoLine("error"), NoLine("empty"), NoLine("unparsed"), NoLine("short") }
    \cup { LogResult("df", t, 2, a, 30, e) : t \in {0, 8}, a \in {0, 6}, e \in BOOLEAN }

\* The snapshot getMetricsFromPod builds once the claim is read: in
\* fallback mode a third of the requested storage counts as used; without
\* logs, half of it; with a disk-usage line of six fields, total > 0 and a
\* percentage that parses, the line's figures, the percentage worked out
\* from total and available when available > 0; with other logs usedBytes
\* and usedPct keep their zero values.
BuildMetrics(now, storage, useFallback, logs) ==
  IF useFallback
  THEN MakeMetrics(now, storage, storage \div 3, UsedPct(storage \div 3, storage))
  ELSE IF logs.kind \in {"error", "empty"}
  THEN MakeMetrics(now, storage, storage \div 2, UsedPct(storage \div 2, storage))
  ELSE IF logs.kind = "df" /\ logs.total > 0 /\ ~logs.percentErr
  THEN MakeMetrics(now, logs.total, logs.used,
                   IF logs.available > 0
                   THEN UsedPct(logs.total - logs.available, logs.total)
                   ELSE Float(logs.percent, 1))
  ELSE MakeMetrics(now, storage, 0, Float(0, 1))

LogsFetchedAlways(useFallback) == TRUE

\* `if !m.useFallback {`: GetLogs is called.
LogsFetched(useFallback) == ~useFallback

\* getMetricsFromPod: the error of the Get of the claim, or the snapshot;
\* and the requests it sent.
getMetricsFromPod(now, pvc, useFallback, logs) ==
  IF pvc.err THEN [err |-> TRUE, metrics |-> ZeroMetrics, requests |-> <<"GetPVC">>]
  ELSE [err |-> FALSE,
        metrics |-> BuildMetrics(now, pvc.storage, useFallback, logs),
        requests |-> IF LogsFetched(useFallback) THEN <<"GetPVC", "GetLogs">>
                     ELSE <<"GetPVC">>]

AfterCycleErrorReturn == "exited"

\* `if err != nil { log.Printf(...); continue }`: back to the select.
AfterCycleError == "select"

DoneReadyAlways(done) == TRUE

\* `case <-m.ctx.Done()` can proceed once the context is cancelled.
DoneReady(done) == done

CanRLockAlways(c) == TRUE

\* m.mu.RLock() returns while the writer does not hold the mutex.  (A
\* reader that arrives while the writer waits in Lock is let in here too:
\* the reader may have called RLock just before the writer called Lock.)
CanRLock(c) == c # "write"

\* m.mu.Lock() returns when no reader holds the mutex.
CanLock(rd) == \A r \in Readers : rd[r] = "idle"

SkipDeleteNever(useFallback) == FALSE

\* `if m.useFallback { return nil }`
SkipDelete(useFallback) == useFallback

\* ------------------------------------------------- CreatePerformancePod
\* `if len(pvcName) > 50`, `if len(perfPodName) > 63`
SafeLen == 50

PodNameLimit == 63

\* n copies of the character c.
Rep(c, n) == [i \in 1..n |-> c]

\* "pvc-perf-monitor-"
Prefix ==
  <<"p", "v", "c", "-", "p", "e", "r", "f", "-",
    "m", "o", "n", "i", "t", "o", "r", "-">>

TrimDashesNone(name) == name

\* `for strings.HasSuffix(perfPodName, "-") { perfPodName = perfPodName[:len-1] }`
RECURSIVE TrimDashes(_)
TrimDashes(name) ==
  IF name # <<>> /\ name[Len(name)] = "-"
  THEN TrimDashes(SubSeq(name, 1, Len(name) - 1))
  ELSE name

SafePVCName(pvcName) ==
  IF Len(pvcName) > SafeLen THEN SubSeq(pvcName, 1, SafeLen) ELSE pvcName

PerfPodNameForUncut(pvcName) == Prefix \o SafePVCName(pvcName)

\* The name CreatePerformancePod gives the diagnostic pod of a claim.
PerfPodNameFor(pvcName) ==
  LET perfPodName == Prefix \o SafePVCName(pvcName)
  IN  IF Len(perfPodName) > PodNameLimit
      THEN TrimDashes(SubSeq(perfPodName, 1, PodNameLimit))
      ELSE perfPodName

\* Claim names (Kubernetes allows up to 253 characters): short ones, and
\* long ones as a StatefulSet's claims have them, a common stem followed
\* by what tells them apart.
ClaimNames ==
  { <<"a">>, <<"b">>,
    Rep("a", 45),
    Rep("a", 46),
    Rep("a", 46) \o <<"0">>,
    Rep("a", 46) \o <<"1">>,
    Rep("a", 45) \o <<"-", "0">>,
    Rep("a", 50) \o <<"0">> }

Monitors == {1, 2}

NoPod == <<>>

\* -------------------------------------------------------- FindPodUsingPVC
\* The pods one List may return.
MaxPods == 3

\* Names are sequences of characters; the words they are made of here.
Kafka == <<"k", "a", "f", "k", "a">>
Pool == <<"p", "o", "o", "l">>
Data == <<"d", "a", "t", "a">>
Web == <<"w", "e", "b">>
Dash == <<"-">>
Zookeeper == <<"z", "o", "o", "k", "e", "e", "p", "e", "r">>

\* strings.HasPrefix
HasPrefix(str, prefix) ==
  Len(prefix) <= Len(str) /\ SubSeq(str, 1, Len(prefix)) = prefix

\* strings.Contains
Contains(str, sub) ==
  \E i \in 0..(Len(str) - Len(sub)) : SubSeq(str, i + 1, i + Len(sub)) = sub

\* strings.ToLower, on the characters names are made of here.
LowerChar(c) == CASE c = "K" -> "k" [] c = "A" -> "a" [] c = "F" -> "f" [] OTHER -> c

ToLower(str) == [i \in 1..Len(str) |-> LowerChar(str[i])]

\* strings.Split(str, "-"): the segments between the dashes, empty ones
\* included; `cur` is the segment being read.
RECURSIVE SplitFrom(_, _, _)
SplitFrom(str, cur, acc) ==
  IF str = <<>> THEN Append(acc, cur)
  ELSE IF Head(str) = "-" THEN SplitFrom(Tail(str), <<>>, Append(acc, cur))
  ELSE SplitFrom(Tail(str), Append(cur, Head(str)), acc)

Split(str) == SplitFrom(str, <<>>, <<>>)

\* A volume of a pod: PersistentVolumeClaim is nil (NoPVC) or names a claim.
NoPVC == <<"<nil>">>

ClaimStrimzi == Data \o Dash \o <<"0">> \o Dash \o Kafka \o Dash \o Pool

ClaimShort == Data \o Dash \o Kafka

ClaimWeb == Web

PVCNames == {ClaimStrimzi, ClaimShort, ClaimWeb}

Pod(name, volumes, phase) == [Name |-> name, Volumes |-> volumes, Phase |-> phase]

PodNames ==
  { Kafka \o Dash \o <<"0">>,
    Kafka \o Dash \o Pool \o Dash \o <<"0">>,
    Web \o Dash \o Kafka,
    <<"m", "y", "K">> \o Tail(Kafka),
    Web \o Dash \o <<"0">> }

PodShapes ==
  { Pod(n, v, ph) : n \in PodNames,
                    v \in { <<>>, <<NoPVC, ClaimStrimzi>> },
                    ph \in {"Running", "Pending"} }

\* What List returns for a namespace: pods of different names.
PodLists ==
  { l \in SeqsUpTo(PodShapes, MaxPods) :
      \A i \in 1..Len(l), j \in 1..Len(l) : i # j => l[i].Name # l[j].Name }

\* The index of the first pod of the list that satisfies Test, 0 if none.
FirstPod(pods, Test(_)) ==
  LET hits == { i \in 1..Len(pods) : Test(pods[i]) }
  IN  IF hits = {} THEN 0 ELSE CHOOSE i \in hits : \A j \in hits : i <= j

DirectMatchNone(pods, pvcName) == 0

\* `for _, pod := range pods.Items { for _, volume := range pod.Spec.Volumes`
DirectMatch(pods, pvcName) ==
  FirstPod(pods, LAMBDA pod : \E k \in 1..Len(pod.Volumes) :
                                 pod.Volumes[k] # NoPVC /\ pod.Volumes[k] = pvcName)

\* The patterns built for a claim "data-<ordinal>-<cluster>-<...>".
Patterns(pvcName) ==
  LET parts == Split(pvcName)
  IN  IF HasPrefix(pvcName, Data \o Dash) /\ Len(parts) >= 4
      THEN LET ordinal == parts[2]
               clusterName == parts[3]
           IN  << clusterName \o Dash \o ordinal,
                  parts[3] \o Dash \o ordinal,
                  parts[3] \o Dash \o parts[4] \o Dash \o ordinal,
                  clusterName \o Dash \o Kafka \o Dash \o ordinal,
                  clusterName \o Dash \o Zookeeper \o Dash \o ordinal >>
      ELSE <<>>

\* `for _, pattern := range patterns { for _, pod := range pods.Items`
RECURSIVE PatternLoop(_, _)
PatternLoop(pods, patterns) ==
  IF patterns = <<>> THEN 0
  ELSE LET i == FirstPod(pods, LAMBDA pod : HasPrefix(pod.Name, Head(patterns)))
       IN  IF i # 0 THEN i ELSE PatternLoop(pods, Tail(patterns))

PatternMatch(pods, pvcName) == PatternLoop(pods, Patterns(pvcName))

\* A segment of the claim name longer than 3 characters is a segment of
\* the pod name.
SharesPart(podName, pvcName) ==
  LET pvcParts == Split(pvcName)
      podParts == Split(podName)
  IN  \E a \in 1..Len(pvcParts), b \in 1..Len(podParts) :
        /\ Len(pvcParts[a]) > 3
        /\ pvcParts[a] = podParts[b]
        /\ Len(podParts[b]) > 3

FuzzyMatch(pods, pvcName) ==
  FirstPod(pods, LAMBDA pod : SharesPart(pod.Name, pvcName))

FallbackMatchFirst(pods) == 1

\* The three last loops: a running pod with "kafka" in its name, a running
\* pod, pods.Items[0].
FallbackMatch(pods) ==
  LET k == FirstPod(pods, LAMBDA pod : Contains(ToLower(pod.Name), Kafka)
                                         /\ pod.Phase = "Running")
      r == FirstPod(pods, LAMBDA pod : pod.Phase = "Running")
  IN  IF k # 0 THEN k ELSE IF r # 0 THEN r ELSE 1

NameOfNone(pods, i) == <<>>

\* pod.Name of the pod found.
NameOf(pods, i) == pods[i].Name

FindPodUsingPVC(listErr, pods, pvcName) ==
  IF listErr THEN [name |-> <<>>, err |-> "error listing pods"]
  ELSE IF Len(pods) = 0 THEN [name |-> <<>>, err |-> "no pods found in namespace"]
  ELSE LET d == DirectMatch(pods, pvcName)
           n == PatternMatch(pods, pvcName)
           f == FuzzyMatch(pods, pvcName)
       IN  [name |-> NameOf(pods, IF d # 0 THEN d
                                  ELSE IF n # 0 THEN n
                                  ELSE IF f # 0 THEN f
                                  ELSE FallbackMatch(pods)),
            err |-> "nil"]

\* --------------------------------------------------------- parseHumanSize
\* Byte counts go beyond what TLC's integers hold, so a natural number is
\* kept as its digits in base 1024, lowest first, without leading zeros
\* (0 is <<>>), and an int64 as a sign with such a magnitude.
Limb == 1024

RECURSIVE FromInt(_)
FromInt(n) == IF n = 0 THEN <<>> ELSE <<n % Limb>> \o FromInt(n \div Limb)

RECURSIVE Norm(_)
Norm(b) ==
  IF b # <<>> /\ b[Len(b)] = 0 THEN Norm(SubSeq(b, 1, Len(b) - 1)) ELSE b

\* b * 1024^k
Shift(b, k) == IF b = <<>> THEN <<>> ELSE [i \in 1..k |-> 0] \o b

RECURSIVE Pow10(_)
Pow10(f) == IF f = 0 THEN 1 ELSE 10 * Pow10(f - 1)

\* The k base-1024 digits after the point of r / den, for r < den, lowest
\* first.
RECURSIVE FracLimbs(_, _, _)
FracLimbs(r, den, k) ==
  IF k = 0 THEN <<>>
  ELSE Append(FracLimbs((r * Limb) % den, den, k - 1), (r * Limb) \div den)

\* The whole part of (n / 10^f) * 1024^k.
Scale(n, f, k) ==
  LET den == Pow10(f)
  IN  Norm(FracLimbs(n % den, den, k) \o FromInt(n \div den))

Int64(neg, mag) == [neg |-> neg /\ mag # <<>>, mag |-> mag]

MaxInt64 == Int64(FALSE, <<1023, 1023, 1023, 1023, 1023, 1023, 7>>)

MinInt64 == Int64(TRUE, <<0, 0, 0, 0, 0, 0, 8>>)

\* The magnitude is below 2^63, or it is 2^63 and the sign is minus.
FitsInt64(neg, mag) ==
  \/ Len(mag) < 7
  \/ Len(mag) = 7 /\ mag[7] < 8
  \/ neg /\ mag = MinInt64.mag

\* int64(f) of a float64: the value cut toward zero when it fits; when it
\* does not, Go leaves the result to the implementation (amd64 gives the
\* lowest int64, arm64 the nearest one).
ToInt64(neg, mag) ==
  IF FitsInt64(neg, mag) THEN { Int64(neg, mag) } ELSE { MinInt64, MaxInt64 }

DigitChars == {"0", "1", "2", "3", "4", "5", "6", "7", "8", "9"}

DigitOf(c) ==
  CASE c = "0" -> 0 [] c = "1" -> 1 [] c = "2" -> 2 [] c = "3" -> 3 [] c = "4" -> 4
    [] c = "5" -> 5 [] c = "6" -> 6 [] c = "7" -> 7 [] c = "8" -> 8 [] c = "9" -> 9

RECURSIVE DigitsValue(_)
DigitsValue(str) ==
  IF str = <<>> THEN 0
  ELSE 10 * DigitsValue(SubSeq(str, 1, Len(str) - 1)) + DigitOf(str[Len(str)])

\* strconv.ParseFloat on the size tokens drawn here, which have a sign, a
\* point and digits but no exponent, no "inf", no "nan": the value is
\* n / 10^f, exactly (float64 rounding is left out).
ParseSizeFloat(str) ==
  LET neg == str # <<>> /\ str[1] = "-"
      body == IF neg THEN Tail(str) ELSE str
      dots == { i \in 1..Len(body) : body[i] = "." }
      digits == SelectSeq(body, LAMBDA c : c \in DigitChars)
  IN  IF /\ \A i \in 1..Len(body) : body[i] \in DigitChars \cup {"."}
         /\ Cardinality(dots) <= 1
         /\ digits # <<>>
      THEN [err |-> FALSE, neg |-> neg, n |-> DigitsValue(digits),
            f |-> IF dots = {} THEN 0 ELSE Len(body) - (CHOOSE i \in dots : TRUE)]
      ELSE [err |-> TRUE, neg |-> FALSE, n |-> 0, f |-> 0]

\* strings.TrimSpace
RECURSIVE TrimSpace(_)
TrimSpace(str) ==
  IF str # <<>> /\ str[1] = " " THEN TrimSpace(Tail(str))
  ELSE IF str # <<>> /\ str[Len(str)] = " " THEN TrimSpace(SubSeq(str, 1, Len(str) - 1))
  ELSE str

\* suffixMap: the power of 1024 a last character stands for, 0 when it is
\* no suffix.
SuffixPower(c) ==
  CASE c = "K" -> 1 [] c = "M" -> 2 [] c = "G" -> 3
    [] c = "T" -> 4 [] c = "P" -> 5 [] c = "E" -> 6 [] OTHER -> 0

\* The int64 values parseHumanSize may return for a token.
parseHumanSize(sizeStr) ==
  LET str == TrimSpace(sizeStr)
  IN  IF str = <<>> THEN { Int64(FALSE, <<>>) }
      ELSE LET k == SuffixPower(str[Len(str)])
               numericPart == IF k > 0 THEN SubSeq(str, 1, Len(str) - 1) ELSE str
               value == ParseSizeFloat(numericPart)
           IN  IF value.err THEN { Int64(FALSE, <<>>) }
               ELSE ToInt64(value.neg, Scale(value.n, value.f, k))

\* Size tokens: a numeral, what follows it, and blanks around both.  The
\* numerals that are numbers, with sign, digits n and decimals f ...
Chars1(a) == <<a>>
Chars2(a, b) == <<a, b>>
Chars3(a, b, c) == <<a, b, c>>
Chars5(a, b, c, d, e) == <<a, b, c, d, e>>

NumberNumerals ==
  { [text |-> Chars1("0"), neg |-> FALSE, n |-> 0, f |-> 0],
    [text |-> Chars1("1"), neg |-> FALSE, n |-> 1, f |-> 0],
    [text |-> Chars1("7"), neg |-> FALSE, n |-> 7, f |-> 0],
    [text |-> Chars1("8"), neg |-> FALSE, n |-> 8, f |-> 0],
    [text |-> Chars3("8", ".", "0"), neg |-> FALSE, n |-> 80, f |-> 1],
    [text |-> Chars3("1", "0", "0"), neg |-> FALSE, n |-> 100, f |-> 0],
    [text |-> Chars3("5", "0", "0"), neg |-> FALSE, n |-> 500, f |-> 0],
    [text |-> Chars3("1", ".", "5"), neg |-> FALSE, n |-> 15, f |-> 1],
    [text |-> Chars5("1", "9", "5", ".", "8"), neg |-> FALSE, n |-> 1958, f |-> 1],
    [text |-> Chars2(".", "5"), neg |-> FALSE, n |-> 5, f |-> 1],
    [text |-> Chars2("1", "."), neg |-> FALSE, n |-> 1, f |-> 0],
    [text |-> Chars2("-", "1"), neg |-> TRUE, n |-> 1, f |-> 0],
    [text |-> Chars3("-", ".", "5"), neg |-> TRUE, n |-> 5, f |-> 1] }

\* ... and the numerals that are none.
JunkNumerals ==
  { <<>>, Chars1("x"), Chars1("-"), Chars1("."), Chars2("1", "x"),
    Chars5("1", ".", "5", ".", "1"), Chars3("1", " ", "5") }

\* What follows the numeral: nothing, a suffix, or a letter that is none.
SizeSuffixes == { <<>>, <<"K">>, <<"M">>, <<"G">>, <<"T">>, <<"P">>, <<"E">>, <<"k">>, <<"B">> }

SizeTokens ==
  { [numeral |-> t, suffix |-> x, blank |-> b] :
      t \in { v.text : v \in NumberNumerals } \cup JunkNumerals,
      x \in SizeSuffixes,
      b \in { <<>>, <<" ">> } }

TokenText(tok) == tok.blank \o tok.numeral \o tok.suffix \o tok.blank

\* ------------------------------------------------------------------ state
VARIABLES
  op,             \* the operation this run invokes
  pc,             \* "call" before it ran, "done" after
  cluster,        \* input: what the cluster answers
  inUsages,       \* input: the records handed to FilterUsages / LimitTopN
  filter,         \* input: the filter expression
  namespace,      \* input: the -namespace value
  topN,           \* input: the cap
  usages,         \* GetUsages' records
  filteredUsages, \* FilterUsages' records
  limitedUsages,  \* LimitTopN's records
  err,            \* "nil", or the step that failed: "nodes", "filter"
  table,          \* the rows Show printed, NoTable when it did not run
  smPc,           \* where StartMonitoring is: "create", "backoff", "wait",
                  \* "waitSleep", and "done" (returned a Monitor) or "failed"
  attempt,        \* StartMonitoring's loop variable
  lastErr,        \* StartMonitoring's err
  perfPod,        \* StartMonitoring's perfPod
  monitor,        \* the Monitor StartMonitoring returned, NoMonitor before
  startErr,       \* the error StartMonitoring returned
  collectors,     \* the collectMetrics goroutines started
  podExists,      \* the cluster holds the diagnostic pod
  createResults,  \* history: what each CreatePerformancePod call returned
  sleeps,         \* history: the backoff sleeps done
  readyPolls,     \* history: the Gets of waitForPodReady, counted to MaxPolls
  lastPhase,      \* history: the phase the last Get read
  ctxDone,        \* m.ctx is cancelled
  colPc,          \* where collectMetrics is: "none" before `go`, "select",
                  \* "getPVC", "getLogs", "lock", "write", "exited"
  tickPending,    \* ticker.C holds a tick
  cycles,         \* the collection cycles begun, which is also time.Now()
  storageBytes,   \* getMetricsFromPod's storageBytes in the cycle under way
  built,          \* collectMetrics' local `metrics`
  metrics,        \* what m.metrics points to
  cycleLog,       \* history: per cycle, "failed" or the snapshot it built
  lateTicks,      \* history: the ticks since m.cancel(), counted to MaxLateTicks
  rdPc,           \* per GetLatestMetrics caller: "idle" or "rlocked"
  lastGot,        \* history: what the last GetLatestMetrics returned
  stopPc,         \* where Stop is: "idle", "delete", "returned"
  stopErr,        \* the error Stop returned
  deleteRequests, \* history: the pod names Stop asked the cluster to delete
  claimOf,        \* two Monitors side by side: the claim each is started for
  monPod,         \* ... each Monitor's perfPod, NoPod before it has one
  monState,       \* ... "new", "started", "failed" (no pod), "stopped"
  clusterPods,    \* ... the diagnostic pods in the namespace: name -> creator
  podDeletes,     \* ... history: the deletes sent: who, which pod, whose pod
  fn,             \* a function called on its own: which one, "" when none
  arg,            \* ... its argument
  ret,            \* ... what it returned, <<>> before it did
  called,         \* ... it has returned
  cpPc,           \* where one CreatePerformancePod call is: "idle", "getTarget",
                  \* "getExisting", "delete", "poll", "pollSleep", "create",
                  \* "returned"
  cpPolls,        \* ... i of `for i := 0; i < 30; i++`
  cpPodThere,     \* ... the cluster holds a pod of the derived name
  cpRequests,     \* ... history: the requests sent for that name, in order,
                  \* a Get with what it returned
  cpErr,          \* ... the error the call returned
  cpArgs,         \* ... its arguments: pvcName (targetPod is the one pod)
  cpNode,         \* ... the node the cluster has the target pod on now
  cpPod,          \* ... what the Get of the target pod returned
  cpSubmitted     \* ... history: the pod specifications handed to Create

usageVars == <<op, pc, cluster, inUsages, filter, namespace, topN,
               usages, filteredUsages, limitedUsages, err, table>>

monitorVars == <<smPc, attempt, lastErr, perfPod, monitor, startErr, collectors,
                 podExists, createResults, sleeps, readyPolls, lastPhase>>

\* lifeVars without colPc, which `go m.collectMetrics()` sets.
lifeRest == <<ctxDone, tickPending, cycles, storageBytes, built, metrics,
              cycleLog, lateTicks, rdPc, lastGot, stopPc, stopErr, deleteRequests>>

lifeVars == <<ctxDone, colPc, tickPending, cycles, storageBytes, built, metrics,
              cycleLog, lateTicks, rdPc, lastGot, stopPc, stopErr, deleteRequests>>

nameVars == <<claimOf, monPod, monState, clusterPods, podDeletes>>

callVars == <<fn, arg, ret, called>>

provVars == <<cpPc, cpPolls, cpPodThere, cpRequests, cpErr,
              cpArgs, cpNode, cpPod, cpSubmitted>>

extraVars == <<callVars, provVars>>

vars == <<usageVars, monitorVars, lifeVars, nameVars, extraVars>>

NoTable == [shown |-> FALSE, rows |-> <<>>]

\* Table.Show: one row per record, in order.
Show(us) == [shown |-> TRUE, rows |-> us]

Ops == {"GetUsages", "FilterUsages", "LimitTopN",
        "UpdateTable", "updateTableWithNamespaceFilter", "updateTable"}

\* No target pod fetched.
NoTarget == [fetched |-> FALSE, NodeName |-> ""]

\* No function is called on its own, no CreatePerformancePod call is
\* followed step by step.
CallsIdle ==
  /\ fn = ""
  /\ arg = <<>>
  /\ ret = <<>>
  /\ called = FALSE

ProvisionIdle ==
  /\ cpPc = "idle"
  /\ cpPolls = 0
  /\ cpPodThere = FALSE
  /\ cpRequests = <<>>
  /\ cpErr = "nil"
  /\ cpArgs = [pvcName |-> <<>>]
  /\ cpNode = ""
  /\ cpPod = NoTarget
  /\ cpSubmitted = <<>>

ExtraIdle == CallsIdle /\ ProvisionIdle

\* The two-Monitor scenario is not running.
NamesIdle ==
  /\ claimOf = <<>>
  /\ monPod = <<>>
  /\ monState = <<>>
  /\ clusterPods = {}
  /\ podDeletes = {}

\* No Monitor exists: no collector, no reader, no Stop.
LifeIdle ==
  /\ ctxDone = FALSE
  /\ colPc = "none"
  /\ tickPending = FALSE
  /\ cycles = 0
  /\ storageBytes = 0
  /\ built = ZeroMetrics
  /\ metrics = ZeroMetrics
  /\ cycleLog = <<>>
  /\ lateTicks = 0
  /\ rdPc = [r \in Readers |-> "idle"]
  /\ lastGot = ZeroMetrics
  /\ stopPc = "idle"
  /\ stopErr = "nil"
  /\ deleteRequests = <<>>

\* No StartMonitoring call is under way.
MonitorIdle ==
  /\ smPc = "idle"
  /\ attempt = 1
  /\ lastErr = "nil"
  /\ perfPod = ""
  /\ monitor = NoMonitor
  /\ startErr = "nil"
  /\ collectors = 0
  /\ podExists = FALSE
  /\ createResults = <<>>
  /\ sleeps = 0
  /\ readyPolls = 0
  /\ lastPhase = ""
  /\ LifeIdle

Init ==
  /\ MonitorIdle
  /\ NamesIdle
  /\ ExtraIdle
  /\ pc = "call"
  /\ op \in Ops
  /\ cluster \in (IF op \in {"FilterUsages", "LimitTopN"} THEN {NoCluster} ELSE Clusters)
  /\ inUsages \in (IF op \in {"FilterUsages", "LimitTopN"} THEN UsageSeqs ELSE {<<>>})
  /\ filter \in (CASE op = "FilterUsages" -> FilterTexts
                   [] op \in {"GetUsages", "LimitTopN"} -> {<<>>}
                   [] OTHER -> CliFilters)
  /\ namespace \in (IF op = "updateTableWithNamespaceFilter" THEN Namespaces ELSE {""})
  /\ topN \in (IF op \in {"GetUsages", "FilterUsages"} THEN {0} ELSE TopNs)
  /\ usages = <<>>
  /\ filteredUsages = <<>>
  /\ limitedUsages = <<>>
  /\ err = "nil"
  /\ table = NoTable

\* ---------------------------------------------------------------- actions
CallGetUsages ==
  /\ pc = "call" /\ op = "GetUsages"
  /\ \E r \in GetUsages(cluster) :
       /\ usages' = r.usages
       /\ err' = IF r.err THEN "nodes" ELSE "nil"
  /\ pc' = "done"
  /\ UNCHANGED <<op, cluster, inUsages, filter, namespace, topN,
                 filteredUsages, limitedUsages, table>>
  /\ UNCHANGED <<monitorVars, lifeVars, nameVars, extraVars>>

CallFilterUsages ==
  /\ pc = "call" /\ op = "FilterUsages"
  /\ LET r == FilterUsages(inUsages, filter)
     IN  /\ filteredUsages' = r.usages
         /\ err' = IF r.err THEN "filter" ELSE "nil"
  /\ pc' = "done"
  /\ UNCHANGED <<op, cluster, inUsages, filter, namespace, topN,
                 usages, limitedUsages, table>>
  /\ UNCHANGED <<monitorVars, lifeVars, nameVars, extraVars>>

CallLimitTopN ==
  /\ pc = "call" /\ op = "LimitTopN"
  /\ limitedUsages' = LimitTopN(inUsages, topN)
  /\ pc' = "done"
  /\ UNCHANGED <<op, cluster, inUsages, filter, namespace, topN,
                 usages, filteredUsages, err, table>>
  /\ UNCHANGED <<monitorVars, lifeVars, nameVars, extraVars>>

\* One run of a table caller: GetUsages, (the namespace filter,) the
\* caller's filter and limit steps, Show.  `steps` is what the caller's
\* filter and limit steps made of the records.
Pipeline(r, steps) ==
  IF r.err
  THEN /\ err' = "nodes"
       /\ UNCHANGED <<usages, filteredUsages, limitedUsages, table>>
  ELSE /\ usages' = r.usages
       /\ IF steps.err
          THEN /\ err' = "filter"
               /\ UNCHANGED <<filteredUsages, limitedUsages, table>>
          ELSE /\ err' = "nil"
               /\ filteredUsages' = steps.filtered
               /\ limitedUsages' = steps.limited
               /\ table' = Show(steps.limited)

UpdateTable ==
  /\ pc = "call" /\ op = "UpdateTable"
  /\ \E r \in GetUsages(cluster) :
       Pipeline(r, FilterThenLimit(r.usages, filter, topN))
  /\ pc' = "done"
  /\ UNCHANGED <<op, cluster, inUsages, filter, namespace, topN>>
  /\ UNCHANGED <<monitorVars, lifeVars, nameVars, extraVars>>

updateTableWithNamespaceFilter ==
  /\ pc = "call" /\ op = "updateTableWithNamespaceFilter"
  /\ \E r \in GetUsages(cluster) :
       Pipeline(r,
                FilterThenLimit(NamespaceFiltered(r.usages, namespace), filter, topN))
  /\ pc' = "done"
  /\ UNCHANGED <<op, cluster, inUsages, filter, namespace, topN>>
  /\ UNCHANGED <<monitorVars, lifeVars, nameVars, extraVars>>

updateTable ==
  /\ pc = "call" /\ op = "updateTable"
  /\ \E r \in GetUsages(cluster) :
       Pipeline(r, LegacyFilterThenLimit(r.usages, filter, topN))
  /\ pc' = "done"
  /\ UNCHANGED <<op, cluster, inUsages, filter, namespace, topN>>
  /\ UNCHANGED <<monitorVars, lifeVars, nameVars, extraVars>>

Next ==
  \/ CallGetUsages
  \/ CallFilterUsages
  \/ CallLimitTopN
  \/ UpdateTable
  \/ updateTableWithNamespaceFilter
  \/ updateTable

Spec == Init /\ [][Next]_vars

\* ------------------------------------------------ StartMonitoring, by step
\* A call of StartMonitoring, from its first statement; the table
\* pipeline is not running.
InitMonitor ==
  /\ op = "StartMonitoring"
  /\ pc = "call"
  /\ cluster = NoCluster
  /\ inUsages = <<>>
  /\ filter = <<>>
  /\ namespace = ""
  /\ topN = 0
  /\ usages = <<>>
  /\ filteredUsages = <<>>
  /\ limitedUsages = <<>>
  /\ err = "nil"
  /\ table = NoTable
  /\ smPc = "create"
  /\ attempt = 1
  /\ lastErr = "nil"
  /\ perfPod = ""
  /\ monitor = NoMonitor
  /\ startErr = "nil"
  /\ collectors = 0
  /\ podExists = FALSE
  /\ createResults = <<>>
  /\ sleeps = 0
  /\ readyPolls = 0
  /\ lastPhase = ""
  /\ LifeIdle
  /\ NamesIdle
  /\ ExtraIdle

\* The Monitor literal, `go m.collectMetrics()` and `return m, nil`.
ReturnMonitor(fallback) ==
  /\ monitor' = [returned |-> TRUE, perfPod |-> perfPod, useFallback |-> fallback]
  /\ collectors' = collectors + 1
  /\ startErr' = "nil"
  /\ smPc' = "done"
  /\ colPc' = "select"
  /\ UNCHANGED lifeRest

\* One pass of the retry loop up to its blocking point: the call of
\* CreatePerformancePod and the branch on what it returned.
SMCreate ==
  /\ smPc = "create"
  /\ attempt <= MaxAttempts
  /\ \E r \in CreateResults :
       /\ perfPod' = r.name
       /\ lastErr' = r.err
       /\ createResults' = Append(createResults, r.err)
       /\ podExists' = (podExists \/ r.err = "nil")
       /\ IF r.err = "nil" THEN smPc' = "wait" /\ startErr' = startErr
          ELSE IF IsResourceError(r.err) THEN smPc' = "backoff" /\ startErr' = startErr
          ELSE smPc' = "failed" /\ startErr' = "error creating performance pod"
  /\ UNCHANGED <<attempt, monitor, collectors, sleeps, readyPolls, lastPhase>>
  /\ UNCHANGED lifeVars
  /\ UNCHANGED <<usageVars, nameVars, extraVars>>

\* time.Sleep(5 * time.Second), `continue`, attempt++; when that ends the
\* loop, err is still set: fallback mode, and the Monitor is returned.
SMBackoff ==
  /\ smPc = "backoff"
  /\ sleeps' = sleeps + 1
  /\ attempt' = attempt + 1
  /\ IF attempt + 1 <= MaxAttempts
     THEN /\ smPc' = "create"
          /\ UNCHANGED <<monitor, collectors, startErr>>
          /\ UNCHANGED lifeVars
     ELSE ReturnMonitor(FallbackAfterRetries)
  /\ UNCHANGED <<lastErr, perfPod, podExists, createResults, readyPolls, lastPhase>>
  /\ UNCHANGED <<usageVars, nameVars, extraVars>>

\* waitForPodReady's Get: an error ends the wait (fallback mode), phase
\* Running ends it (normal mode), any other phase goes on to the sleep.
SMPollReady ==
  /\ smPc = "wait"
  /\ readyPolls' = Min(readyPolls + 1, MaxPolls)
  /\ \E r \in GetPodResults :
       /\ lastPhase' = r.phase
       /\ IF r.err THEN ReturnMonitor(FallbackOnReadinessError)
          ELSE IF r.phase = "Running" THEN ReturnMonitor(FALSE)
          ELSE /\ smPc' = "waitSleep"
               /\ UNCHANGED <<monitor, collectors, startErr>>
               /\ UNCHANGED lifeVars
  /\ UNCHANGED <<attempt, lastErr, perfPod, podExists, createResults, sleeps>>
  /\ UNCHANGED <<usageVars, nameVars, extraVars>>

\* waitForPodReady's time.Sleep(1 * time.Second), then the loop again.
SMPollSleep ==
  /\ smPc = "waitSleep"
  /\ smPc' = "wait"
  /\ UNCHANGED <<attempt, lastErr, perfPod, monitor, startErr, collectors,
                 podExists, createResults, sleeps, readyPolls, lastPhase>>
  /\ UNCHANGED lifeVars
  /\ UNCHANGED <<usageVars, nameVars, extraVars>>

NextMonitor == SMCreate \/ SMBackoff \/ SMPollReady \/ SMPollSleep

SpecMonitor == InitMonitor /\ [][NextMonitor]_vars

\* StartMonitoring runs on its caller's goroutine: a step it can take, it
\* takes.
FairSpecMonitor == SpecMonitor /\ WF_vars(NextMonitor)

\* ----------------------------------------------- the Monitor's life, by step
\* monitorVars without podExists, which Stop's Delete changes.
startVars == <<smPc, attempt, lastErr, perfPod, monitor, startErr, collectors,
               createResults, sleeps, readyPolls, lastPhase>>

\* An entry of cycleLog.
CycleFailed == [ok |-> FALSE, metrics |-> ZeroMetrics]

CycleBuilt(m) == [ok |-> TRUE, metrics |-> m]

\* The ticker fires: ticker.C, a channel of capacity 1, holds the tick or
\* already held one (then this tick is dropped).  `defer ticker.Stop()`
\* ends it when collectMetrics returns.
Tick ==
  /\ colPc \notin {"none", "exited"}
  /\ tickPending' = TRUE
  /\ lateTicks' = IF ctxDone THEN Min(lateTicks + 1, MaxLateTicks) ELSE lateTicks
  /\ UNCHANGED <<ctxDone, colPc, cycles, storageBytes, built, metrics, cycleLog,
                 rdPc, lastGot, stopPc, stopErr, deleteRequests>>
  /\ UNCHANGED <<usageVars, monitorVars, nameVars, extraVars>>

\* The select takes `case <-ticker.C`: a cycle begins with the call that
\* reads the claim.  When both cases can proceed select picks either.
ColTick ==
  /\ colPc = "select"
  /\ tickPending
  /\ cycles < MaxCycles
  /\ tickPending' = FALSE
  /\ cycles' = cycles + 1
  /\ colPc' = "getPVC"
  /\ UNCHANGED <<ctxDone, storageBytes, built, metrics, cycleLog, lateTicks,
                 rdPc, lastGot, stopPc, stopErr, deleteRequests>>
  /\ UNCHANGED <<usageVars, monitorVars, nameVars, extraVars>>

\* The select takes `case <-m.ctx.Done()`: collectMetrics returns.
ColDone ==
  /\ colPc = "select"
  /\ DoneReady(ctxDone)
  /\ colPc' = "exited"
  /\ UNCHANGED <<ctxDone, tickPending, cycles, storageBytes, built, metrics,
                 cycleLog, lateTicks, rdPc, lastGot, stopPc, stopErr, deleteRequests>>
  /\ UNCHANGED <<usageVars, monitorVars, nameVars, extraVars>>

\* getMetricsFromPod's Get of the claim returns.  An error ends the cycle;
\* in fallback mode the snapshot is built from the claim alone; otherwise
\* the cycle goes on to GetLogs.
ColGetPVC ==
  /\ colPc = "getPVC"
  /\ \E r \in GetPVCResults :
       IF r.err
       THEN /\ colPc' = AfterCycleError
            /\ cycleLog' = Append(cycleLog, CycleFailed)
            /\ UNCHANGED <<storageBytes, built>>
       ELSE /\ storageBytes' = r.storage
            /\ IF monitor.useFallback
               THEN LET m == BuildMetrics(cycles, r.storage, TRUE,
                                          CHOOSE l \in LogResults : l.kind = "empty")
                    IN  /\ built' = m
                        /\ cycleLog' = Append(cycleLog, CycleBuilt(m))
                        /\ colPc' = "lock"
               ELSE /\ colPc' = "getLogs"
                    /\ UNCHANGED <<built, cycleLog>>
  /\ UNCHANGED <<ctxDone, tickPending, cycles, metrics, lateTicks,
                 rdPc, lastGot, stopPc, stopErr, deleteRequests>>
  /\ UNCHANGED <<usageVars, monitorVars, nameVars, extraVars>>

FlagAfterCycleDegrade(useFallback, logs) ==
  useFallback \/ logs.kind \in {"error", "empty"}

\* m.useFallback after a cycle: getMetricsFromPod reads it and takes the
\* placeholder figures for the cycle when there are no logs, but assigns
\* nothing to it.
FlagAfterCycle(useFallback, logs) == useFallback

\* GetLogs of the diagnostic pod returns, and the snapshot is built.
ColGetLogs ==
  /\ colPc = "getLogs"
  /\ \E l \in LogResults :
       LET m == BuildMetrics(cycles, storageBytes, FALSE, l)
       IN  /\ built' = m
           /\ cycleLog' = Append(cycleLog, CycleBuilt(m))
           /\ monitor' = [monitor EXCEPT !.useFallback = FlagAfterCycle(@, l)]
  /\ colPc' = "lock"
  /\ UNCHANGED <<ctxDone, tickPending, cycles, storageBytes, metrics, lateTicks,
                 rdPc, lastGot, stopPc, stopErr, deleteRequests>>
  /\ UNCHANGED <<smPc, attempt, lastErr, perfPod, startErr, collectors,
                 podExists, createResults, sleeps, readyPolls, lastPhase>>
  /\ UNCHANGED <<usageVars, nameVars, extraVars>>

\* m.mu.Lock() returns.
ColLock ==
  /\ colPc = "lock"
  /\ CanLock(rdPc)
  /\ colPc' = "write"
  /\ UNCHANGED <<ctxDone, tickPending, cycles, storageBytes, built, metrics,
                 cycleLog, lateTicks, rdPc, lastGot, stopPc, stopErr, deleteRequests>>
  /\ UNCHANGED <<usageVars, monitorVars, nameVars, extraVars>>

AssignedFieldwise(old, new) ==
  [old EXCEPT !.DiskSpace = new.DiskSpace,
              !.DiskSpaceUsed = new.DiskSpaceUsed,
              !.DiskSpacePct = new.DiskSpacePct]

\* `m.metrics = metrics`: m.metrics is a *Metrics, the assignment makes it
\* point to the Metrics the cycle built.
Assigned(old, new) == new

\* `m.metrics = metrics`, m.mu.Unlock(), and the loop is at the select
\* again.
ColWrite ==
  /\ colPc = "write"
  /\ metrics' = Assigned(metrics, built)
  /\ colPc' = "select"
  /\ UNCHANGED <<ctxDone, tickPending, cycles, storageBytes, built,
                 cycleLog, lateTicks, rdPc, lastGot, stopPc, stopErr, deleteRequests>>
  /\ UNCHANGED <<usageVars, monitorVars, nameVars, extraVars>>

\* A caller of GetLatestMetrics on the returned Monitor: m.mu.RLock()
\* returns.
ReaderRLock(r) ==
  /\ monitor.returned
  /\ rdPc[r] = "idle"
  /\ CanRLock(colPc)
  /\ rdPc' = [rdPc EXCEPT ![r] = "rlocked"]
  /\ UNCHANGED <<ctxDone, colPc, tickPending, cycles, storageBytes, built, metrics,
                 cycleLog, lateTicks, lastGot, stopPc, stopErr, deleteRequests>>
  /\ UNCHANGED <<usageVars, monitorVars, nameVars, extraVars>>

\* `return *m.metrics` and the deferred RUnlock.  A read of m.metrics that
\* races with the writer's assignment sees the pointer before or after it.
ReaderReturn(r) ==
  /\ rdPc[r] = "rlocked"
  /\ lastGot' \in (IF colPc = "write" THEN {metrics, built} ELSE {metrics})
  /\ rdPc' = [rdPc EXCEPT ![r] = "idle"]
  /\ UNCHANGED <<ctxDone, colPc, tickPending, cycles, storageBytes, built, metrics,
                 cycleLog, lateTicks, stopPc, stopErr, deleteRequests>>
  /\ UNCHANGED <<usageVars, monitorVars, nameVars, extraVars>>

\* Stop, up to its blocking call: m.cancel(), and in fallback mode
\* `return nil`.
StopCancel ==
  /\ monitor.returned
  /\ stopPc = "idle"
  /\ ctxDone' = TRUE
  /\ IF SkipDelete(monitor.useFallback)
     THEN stopPc' = "returned"
     ELSE stopPc' = "delete"
  /\ UNCHANGED <<colPc, tickPending, cycles, storageBytes, built, metrics,
                 cycleLog, lateTicks, rdPc, lastGot, stopErr, deleteRequests>>
  /\ UNCHANGED <<usageVars, monitorVars, nameVars, extraVars>>

\* The Delete of m.perfPod returns, and Stop returns its error or nil.
StopDelete ==
  /\ stopPc = "delete"
  /\ deleteRequests' = Append(deleteRequests, monitor.perfPod)
  /\ \E deleted \in BOOLEAN :
       /\ podExists' = (podExists /\ ~deleted)
       /\ stopErr' = IF deleted THEN "nil" ELSE "error deleting performance pod"
  /\ stopPc' = "returned"
  /\ UNCHANGED <<ctxDone, colPc, tickPending, cycles, storageBytes, built, metrics,
                 cycleLog, lateTicks, rdPc, lastGot>>
  /\ UNCHANGED <<usageVars, startVars, nameVars, extraVars>>

NextLife ==
  \/ NextMonitor
  \/ Tick
  \/ ColTick
  \/ ColDone
  \/ ColGetPVC
  \/ ColGetLogs
  \/ ColLock
  \/ ColWrite
  \/ \E r \in Readers : ReaderRLock(r)
  \/ \E r \in Readers : ReaderReturn(r)
  \/ StopCancel
  \/ StopDelete

\* StartMonitoring, then the collector, the readers and Stop side by side.
SpecLife == InitMonitor /\ [][NextLife]_vars
\* ------------------------------------------- two Monitors in one namespace
\* Two Monitors are started for two different claims of one namespace.
InitNames ==
  /\ op = "StartMonitoring"
  /\ pc = "call"
  /\ cluster = NoCluster
  /\ inUsages = <<>>
  /\ filter = <<>>
  /\ namespace = ""
  /\ topN = 0
  /\ usages = <<>>
  /\ filteredUsages = <<>>
  /\ limitedUsages = <<>>
  /\ err = "nil"
  /\ table = NoTable
  /\ MonitorIdle
  /\ ExtraIdle
  /\ claimOf \in { c \in [Monitors -> ClaimNames] : c[1] # c[2] }
  /\ monPod = [i \in Monitors |-> NoPod]
  /\ monState = [i \in Monitors |-> "new"]
  /\ clusterPods = {}
  /\ podDeletes = {}

\* The pod of the cluster with a name, as a set: empty when there is none.
PodsNamed(name) == { p \in clusterPods : p.name = name }

\* What a Delete of the pod `name` sent for Monitor i leaves in the log.
DeletesOf(i, name) == { [by |-> i, name |-> name, owner |-> p.owner] : p \in PodsNamed(name) }

\* StartMonitoring for Monitor i, as far as the cluster sees it:
\* CreatePerformancePod derives the pod's name; a pod of that name that
\* exists is deleted, and its disappearance waited for; then the pod is
\* created.  A failed Delete or Create leaves the Monitor without a pod.
CreatePerformancePod(i) ==
  /\ monState[i] = "new"
  /\ LET perfPodName == PerfPodNameFor(claimOf[i])
         existing == PodsNamed(perfPodName)
     IN  \E deleteOk \in BOOLEAN, createOk \in BOOLEAN :
           IF existing # {} /\ ~deleteOk
           THEN /\ podDeletes' = podDeletes \cup DeletesOf(i, perfPodName)
                /\ monState' = [monState EXCEPT ![i] = "failed"]
                /\ UNCHANGED <<clusterPods, monPod>>
           ELSE /\ podDeletes' = podDeletes \cup DeletesOf(i, perfPodName)
                /\ IF createOk
                   THEN /\ clusterPods' = (clusterPods \ existing)
                                            \cup {[name |-> perfPodName, owner |-> i]}
                        /\ monPod' = [monPod EXCEPT ![i] = perfPodName]
                        /\ monState' = [monState EXCEPT ![i] = "started"]
                   ELSE /\ clusterPods' = clusterPods \ existing
                        /\ monState' = [monState EXCEPT ![i] = "failed"]
                        /\ UNCHANGED monPod
  /\ UNCHANGED claimOf
  /\ UNCHANGED <<usageVars, monitorVars, lifeVars, extraVars>>

\* Stop of Monitor i, not in fallback mode: the Delete of m.perfPod, which
\* the cluster carries out on the pod of that name, or fails.
StopMonitor(i) ==
  /\ monState[i] = "started"
  /\ podDeletes' = podDeletes \cup DeletesOf(i, monPod[i])
  /\ \E deleted \in BOOLEAN :
       clusterPods' = IF deleted THEN clusterPods \ PodsNamed(monPod[i]) ELSE clusterPods
  /\ monState' = [monState EXCEPT ![i] = "stopped"]
  /\ UNCHANGED <<claimOf, monPod>>
  /\ UNCHANGED <<usageVars, monitorVars, lifeVars, extraVars>>

NextNames ==
  \/ \E i \in Monitors : CreatePerformancePod(i)
  \/ \E i \in Monitors : StopMonitor(i)

SpecNames == InitNames /\ [][NextNames]_vars

\* ------------------------------------------------- functions on their own
\* Nothing else runs while a function is called on its own.
UsageIdle ==
  /\ op = "none"
  /\ pc = "call"
  /\ cluster = NoCluster
  /\ inUsages = <<>>
  /\ filter = <<>>
  /\ namespace = ""
  /\ topN = 0
  /\ usages = <<>>
  /\ filteredUsages = <<>>
  /\ limitedUsages = <<>>
  /\ err = "nil"
  /\ table = NoTable

OthersIdle == UsageIdle /\ MonitorIdle /\ NamesIdle

\* One call of FindPodUsingPVC: what List answers, and the claim name.
InitFind ==
  /\ OthersIdle
  /\ ProvisionIdle
  /\ fn = "FindPodUsingPVC"
  /\ arg \in ( { [listErr |-> TRUE, pods |-> <<>>, pvcName |-> c] : c \in PVCNames }
               \cup { [listErr |-> FALSE, pods |-> l, pvcName |-> c] :
                        l \in PodLists, c \in PVCNames } )
  /\ ret = <<>>
  /\ called = FALSE

CallFindPodUsingPVC ==
  /\ fn = "FindPodUsingPVC"
  /\ ~called
  /\ ret' = FindPodUsingPVC(arg.listErr, arg.pods, arg.pvcName)
  /\ called' = TRUE
  /\ UNCHANGED <<fn, arg>>
  /\ UNCHANGED <<usageVars, monitorVars, lifeVars, nameVars, provVars>>

NextFind == CallFindPodUsingPVC

SpecFind == InitFind /\ [][NextFind]_vars

\* One call of ParseFilter on a filter text.
InitParse ==
  /\ OthersIdle
  /\ ProvisionIdle
  /\ fn = "ParseFilter"
  /\ arg \in FilterTexts
  /\ ret = <<>>
  /\ called = FALSE

CallParseFilter ==
  /\ fn = "ParseFilter"
  /\ ~called
  /\ ret' = ParseFilter(arg)
  /\ called' = TRUE
  /\ UNCHANGED <<fn, arg>>
  /\ UNCHANGED <<usageVars, monitorVars, lifeVars, nameVars, provVars>>

NextParse == CallParseFilter

SpecParse == InitParse /\ [][NextParse]_vars

\* One call of parseHumanSize on a size token.
InitSize ==
  /\ OthersIdle
  /\ ProvisionIdle
  /\ fn = "parseHumanSize"
  /\ arg \in SizeTokens
  /\ ret = <<>>
  /\ called = FALSE

CallParseHumanSize ==
  /\ fn = "parseHumanSize"
  /\ ~called
  /\ ret' \in parseHumanSize(TokenText(arg))
  /\ called' = TRUE
  /\ UNCHANGED <<fn, arg>>
  /\ UNCHANGED <<usageVars, monitorVars, lifeVars, nameVars, provVars>>

NextSize == CallParseHumanSize

SpecSize == InitSize /\ [][NextSize]_vars

\* One call of getMetricsFromPod, on its own: the second of the clock, what
\* the Get of the claim and GetLogs return, and the Monitor's useFallback.
CycleInputs ==
  [now : 0..1,
   pvc : { [err |-> TRUE, storage |-> 0] } \cup { [err |-> FALSE, storage |-> c] : c \in {0, 6, 7} },
   useFallback : BOOLEAN,
   logs : LogInputs]

InitCycle ==
  /\ OthersIdle
  /\ ProvisionIdle
  /\ fn = "getMetricsFromPod"
  /\ arg \in CycleInputs
  /\ ret = <<>>
  /\ called = FALSE

CallGetMetricsFromPod ==
  /\ fn = "getMetricsFromPod"
  /\ ~called
  /\ ret' = getMetricsFromPod(arg.now, arg.pvc, arg.useFallback, arg.logs)
  /\ called' = TRUE
  /\ UNCHANGED <<fn, arg>>
  /\ UNCHANGED <<usageVars, monitorVars, lifeVars, nameVars, provVars>>

NextCycle == CallGetMetricsFromPod

SpecCycle == InitCycle /\ [][NextCycle]_vars

\* The derivation of the pod name in CreatePerformancePod, on its own,
\* for claim names of every length up to MaxClaimLen and beyond what a
\* pod name holds, with and without dashes at the end.
MaxClaimLen == 66

NameTails == { <<>>, <<"-">>, <<"-", "-">>, <<"-", "0">> }

NameInputs == { Rep("a", n) \o t : n \in 0..MaxClaimLen, t \in NameTails }

InitPodName ==
  /\ OthersIdle
  /\ ProvisionIdle
  /\ fn = "perfPodName"
  /\ arg \in NameInputs
  /\ ret = <<>>
  /\ called = FALSE

CallPerfPodName ==
  /\ fn = "perfPodName"
  /\ ~called
  /\ ret' = PerfPodNameFor(arg)
  /\ called' = TRUE
  /\ UNCHANGED <<fn, arg>>
  /\ UNCHANGED <<usageVars, monitorVars, lifeVars, nameVars, provVars>>

NextPodName == CallPerfPodName

SpecPodName == InitPodName /\ [][NextPodName]_vars

\* ------------------------------------------- CreatePerformancePod, by step
\* `for i := 0; i < 30; i++`
PollLimit == 30

PollAgain(i) == i < PollLimit

AfterDeleteCreate == "create"

\* Where the call goes once the Delete of the pod found has returned nil:
\* into the loop that waits for the pod to go.
AfterDelete == "poll"

\* The claims the call is made for, and where the target pod may be: on a
\* node, or on none yet ("").
ProvisionClaims == { <<"a">>, Rep("a", 46) \o <<"0">> }

NodeNames == {"", "n1", "n2"}

PinnedNodeNone(pod) == ""

\* `NodeName: pod.Spec.NodeName`
PinnedNode(pod) == pod.NodeName

\* The corev1.Pod literal handed to Create, as far as placement, mounts
\* and privileges go.
PerfPodSpec(perfPodName, pod, pvcName) ==
  [Name |-> perfPodName,
   NodeName |-> PinnedNode(pod),
   Containers |-> << [Name |-> "perf-monitor",
                      VolumeMounts |-> << [Name |-> "pvc-volume",
                                           MountPath |-> "/mnt/pvc",
                                           ReadOnly |-> TRUE] >>,
                      Privileged |-> FALSE] >>,
   Volumes |-> << [Name |-> "pvc-volume", ClaimName |-> pvcName, ReadOnly |-> TRUE] >>,
   RestartPolicy |-> "Never"]

\* What a Get of the derived name may return: the pod, if there is one, or
\* an error (the pod is not found, or the request failed).
GetOutcomes(there) == IF there THEN {"found", "error"} ELSE {"error"}

\* One call of CreatePerformancePod, in a namespace that holds a pod of the
\* derived name or does not.
InitProvision ==
  /\ OthersIdle
  /\ CallsIdle
  /\ cpPc = "getTarget"
  /\ cpPolls = 0
  /\ cpPodThere \in BOOLEAN
  /\ cpRequests = <<>>
  /\ cpErr = "nil"
  /\ cpArgs \in [pvcName : ProvisionClaims]
  /\ cpNode \in NodeNames
  /\ cpPod = NoTarget
  /\ cpSubmitted = <<>>

ProvisionRest == <<usageVars, monitorVars, lifeVars, nameVars, callVars>>

\* The Get of the target pod.
CpGetTarget ==
  /\ cpPc = "getTarget"
  /\ \/ cpPc' = "returned" /\ cpErr' = "error getting target pod" /\ cpPod' = cpPod
     \/ /\ cpPc' = "getExisting"
        /\ cpErr' = cpErr
        /\ cpPod' = [fetched |-> TRUE, NodeName |-> cpNode]
  /\ UNCHANGED <<cpPolls, cpPodThere, cpRequests, cpArgs, cpNode, cpSubmitted>>
  /\ UNCHANGED ProvisionRest

\* The Get of the derived name: `if err == nil` the pod is deleted first.
CpGetExisting ==
  /\ cpPc = "getExisting"
  /\ \E o \in GetOutcomes(cpPodThere) :
       /\ cpRequests' = Append(cpRequests, IF o = "found" THEN "GetFound" ELSE "GetError")
       /\ cpPc' = IF o = "found" THEN "delete" ELSE "create"
  /\ UNCHANGED <<cpPolls, cpPodThere, cpErr, cpArgs, cpNode, cpPod, cpSubmitted>>
  /\ UNCHANGED ProvisionRest

\* The Delete of the pod found; its error ends the call, otherwise `i := 0`.
CpDelete ==
  /\ cpPc = "delete"
  /\ cpRequests' = Append(cpRequests, "Delete")
  /\ \/ /\ cpPc' = "returned"
        /\ cpErr' = "error deleting existing performance pod"
        /\ UNCHANGED cpPolls
     \/ /\ cpPodThere
        /\ cpPc' = AfterDelete
        /\ cpPolls' = 0
        /\ cpErr' = cpErr
  /\ UNCHANGED <<cpPodThere, cpArgs, cpNode, cpPod, cpSubmitted>>
  /\ UNCHANGED ProvisionRest

\* The cluster removes the pod whose Delete it accepted, at a time of its
\* own, or never.
PodRemoved ==
  /\ cpPodThere
  /\ cpPc \in {"poll", "pollSleep", "create"}
  /\ \E i \in 1..Len(cpRequests) : cpRequests[i] = "Delete"
  /\ cpPodThere' = FALSE
  /\ UNCHANGED <<cpPc, cpPolls, cpRequests, cpErr, cpArgs, cpNode, cpPod, cpSubmitted>>
  /\ UNCHANGED ProvisionRest

\* The Get in the loop: `if err != nil { break }`.
CpPoll ==
  /\ cpPc = "poll"
  /\ \E o \in GetOutcomes(cpPodThere) :
       /\ cpRequests' = Append(cpRequests, IF o = "found" THEN "PollFound" ELSE "PollError")
       /\ cpPc' = IF o = "found" THEN "pollSleep" ELSE "create"
  /\ UNCHANGED <<cpPolls, cpPodThere, cpErr, cpArgs, cpNode, cpPod, cpSubmitted>>
  /\ UNCHANGED ProvisionRest

\* time.Sleep(1 * time.Second), i++ and the test of i.
CpPollSleep ==
  /\ cpPc = "pollSleep"
  /\ cpPolls' = cpPolls + 1
  /\ cpPc' = IF PollAgain(cpPolls + 1) THEN "poll" ELSE "create"
  /\ UNCHANGED <<cpPodThere, cpRequests, cpErr, cpArgs, cpNode, cpPod, cpSubmitted>>
  /\ UNCHANGED ProvisionRest

\* The Create of the new pod: refused while a pod of the name is there, and
\* free to fail otherwise.
CpCreate ==
  /\ cpPc = "create"
  /\ cpRequests' = Append(cpRequests, "Create")
  /\ cpSubmitted' = Append(cpSubmitted,
                            PerfPodSpec(PerfPodNameFor(cpArgs.pvcName), cpPod, cpArgs.pvcName))
  /\ cpPc' = "returned"
  /\ \/ cpErr' = "error creating performance pod" /\ UNCHANGED cpPodThere
     \/ ~cpPodThere /\ cpErr' = cpErr /\ cpPodThere' = TRUE
  /\ UNCHANGED <<cpPolls, cpArgs, cpNode, cpPod>>
  /\ UNCHANGED ProvisionRest

\* The scheduler places the target pod, or places its successor elsewhere,
\* while the call runs.
TargetMoves ==
  /\ cpPc \in {"getTarget", "getExisting", "delete", "poll", "pollSleep", "create"}
  /\ \E n \in NodeNames \ {"", cpNode} : cpNode' = n
  /\ UNCHANGED <<cpPc, cpPolls, cpPodThere, cpRequests, cpErr, cpArgs, cpPod, cpSubmitted>>
  /\ UNCHANGED ProvisionRest

NextProvision ==
  \/ TargetMoves
  \/ CpGetTarget
  \/ CpGetExisting
  \/ CpDelete
  \/ PodRemoved
  \/ CpPoll
  \/ CpPollSleep
  \/ CpCreate

SpecProvision == InitProvision /\ [][NextProvision]_vars

\* The call runs on its caller's goroutine and each request returns: a
\* step the call can take, it takes.  Nothing makes the cluster remove the
\* pod.
CallStep ==
  CpGetTarget \/ CpGetExisting \/ CpDelete \/ CpPoll \/ CpPollSleep \/ CpCreate

FairSpecProvision == SpecProvision /\ WF_vars(CallStep)

\* ================================================================ claims
\* How a percentage compares with a threshold: -1 below, 0 equal, 1 above.
Cmp(p, v) == IF p.num > v * p.den THEN 1 ELSE IF p.num = v * p.den THEN 0 ELSE 0 - 1

FiveOperators == { <<">">>, <<">", "=">>, <<"<">>, <<"<", "=">>, <<"=">> }

Allowed(o) ==
  CASE o = <<">">>      -> {1}
    [] o = <<">", "=">> -> {0, 1}
    [] o = <<"<">>      -> {0 - 1}
    [] o = <<"<", "=">> -> {0 - 1, 0}
    [] o = <<"=">>      -> {0}

Satisfying(us, o, v) == SelectSeq(us, LAMBDA u : Cmp(u.PercentageUsed, v) \in Allowed(o))

Numerals == SeqsUpTo(Digits, MaxFilterLen) \ {<<>>}

Callers == {"UpdateTable", "updateTableWithNamespaceFilter", "updateTable"}

\* C1: for a filter text `op v` with op one of > >= < <= =, FilterUsages
\* returns, without error, exactly the records of its input whose
\* percentage satisfies the comparison with v, in input order; for the
\* empty text it returns its input.
C1_FilterReturnsExactlyTheSatisfying ==
  (pc = "done" /\ op = "FilterUsages") =>
    /\ filter = <<>> => (err = "nil" /\ filteredUsages = inUsages)
    /\ \A o \in FiveOperators, d \in Numerals :
         filter = o \o d =>
           /\ err = "nil"
           /\ filteredUsages = Satisfying(inUsages, o, DecimalValue(d))

C1_Witness ==
  /\ pc = "done" /\ op = "FilterUsages"
  /\ filter = <<">", "=", "5">>
  /\ Len(inUsages) = 2
  /\ filteredUsages = <<inUsages[2]>>
  /\ inUsages[2].PercentageUsed = Percentage(1, 20)

\* C2: LimitTopN returns its input when n <= 0 or n >= len, and otherwise
\* its first n records in order; for n > 0 the result has min(len, n)
\* records.
C2_LimitIsIdentityOrPrefix ==
  (pc = "done" /\ op = "LimitTopN") =>
    /\ (topN <= 0 \/ topN >= Len(inUsages)) => limitedUsages = inUsages
    /\ (topN > 0 /\ topN < Len(inUsages)) =>
         /\ Len(limitedUsages) = topN
         /\ \A i \in 1..topN : limitedUsages[i] = inUsages[i]
    /\ topN > 0 => Len(limitedUsages) = Min(Len(inUsages), topN)

C2_Witness ==
  /\ pc = "done" /\ op = "LimitTopN"
  /\ topN = 1 /\ Len(inUsages) = 2
  /\ inUsages[1] # inUsages[2]
  /\ limitedUsages = <<inUsages[1]>>

\* C3: the records GetUsages returns are in non-increasing order of
\* percentage used.
C3_UsagesSortedDescending ==
  pc = "done" =>
    \A i \in 1..(Len(usages) - 1) :
      usages[i].PercentageUsed.num * usages[i + 1].PercentageUsed.den
        >= usages[i + 1].PercentageUsed.num * usages[i].PercentageUsed.den

C3_Witness ==
  /\ pc = "done" /\ op = "GetUsages"
  /\ Len(usages) = 3
  /\ usages # NodeLoop(<<>>, cluster.nodes)
  /\ usages[1].PercentageUsed = Percentage(2, 20)
  /\ usages[3].PercentageUsed = Percentage(1, 40)

\* The records of a ranking that a namespace and a filter text let pass.
Passing(us, ns, text) ==
  LET inNs == IF ns = "" THEN us ELSE SelectSeq(us, LAMBDA u : u.Namespace = ns)
  IN  IF text = <<>> THEN inNs
      ELSE IF text[1] \in Digits THEN Satisfying(inNs, <<">">>, DecimalValue(text))
      ELSE IF Len(text) > 1 /\ text[2] = "="
           THEN Satisfying(inNs, <<text[1], "=">>, DecimalValue(SubSeq(text, 3, Len(text))))
      ELSE Satisfying(inNs, <<text[1]>>, DecimalValue(Tail(text)))

\* C4: every table caller shows, for a cap N > 0, the first N of the
\* records of GetUsages' ranking that satisfy the filter (and the
\* namespace), which are the N highest of them; without a cap, all of them.
C4_LimitAppliesToFilteredRanking ==
  (pc = "done" /\ op \in Callers /\ err = "nil") =>
    LET F == Passing(usages, namespace, filter)
        shown == IF topN > 0 THEN Min(topN, Len(F)) ELSE Len(F)
    IN  /\ table = [shown |-> TRUE, rows |-> SubSeq(F, 1, shown)]
        /\ \A i \in 1..shown, j \in (shown + 1)..Len(F) :
             F[i].PercentageUsed.num * F[j].PercentageUsed.den
               >= F[j].PercentageUsed.num * F[i].PercentageUsed.den

C4_Witness ==
  /\ pc = "done" /\ op = "UpdateTable" /\ err = "nil"
  /\ topN = 1 /\ filter = <<"<", "=", "5">>
  /\ Len(usages) = 3 /\ Len(filteredUsages) = 2
  /\ table.rows = <<usages[2]>>

\* The places <<node, pod, volume>> of the reports of the nodes whose
\* request succeeded that hold a claim with nonzero capacity.
Reported(c) ==
  UNION { UNION { { <<n, p, k>> : k \in { x \in 1..Len(c.nodes[n].pods[p]) :
                                            /\ c.nodes[n].pods[p][x].PVCRef # NoRef
                                            /\ c.nodes[n].pods[p][x].CapacityBytes # 0 } }
                  : p \in 1..Len(c.nodes[n].pods) }
          : n \in { x \in 1..Len(c.nodes) : ~c.nodes[x].err } }

VolumeAt(c, pos) == c.nodes[pos[1]].pods[pos[2]][pos[3]]

\* C5: when the node list is read, GetUsages succeeds whatever nodes fail,
\* and returns the records of the nodes that answered, each as often as it
\* was reported; when the node list cannot be read it returns an error and
\* no records.
C5_PartialResults ==
  (pc = "done" /\ op = "GetUsages") =>
    IF cluster.nodesErr THEN err = "nodes" /\ usages = <<>>
    ELSE /\ err = "nil"
         /\ \A v \in Volumes \ {VolN, VolZ} :
              Cardinality({ i \in 1..Len(usages) :
                  /\ usages[i].Namespace = v.PVCRef.Namespace
                  /\ usages[i].PVC = v.PVCRef.Name
                  /\ usages[i].CapacityBytes = v.CapacityBytes
                  /\ usages[i].UsedBytes = v.UsedBytes
                  /\ usages[i].AvailableBytes = v.AvailableBytes })
                = Cardinality({ pos \in Reported(cluster) : VolumeAt(cluster, pos) = v })
         /\ Len(usages) = Cardinality(Reported(cluster))

C5_Witness ==
  /\ pc = "done" /\ op = "GetUsages" /\ err = "nil"
  /\ Len(cluster.nodes) = 2
  /\ cluster.nodes[1].err /\ ~cluster.nodes[2].err
  /\ Len(usages) = 2

\* C6: no record of GetUsages, nor of anything derived from it, has
\* capacity 0; a claim with capacity 0 raises no error and costs the other
\* volumes of its pod and node nothing.
C6_NoZeroCapacity ==
  pc = "done" =>
    /\ \A i \in 1..Len(usages) : usages[i].CapacityBytes # 0
    /\ \A i \in 1..Len(filteredUsages) : filteredUsages[i].CapacityBytes # 0
    /\ \A i \in 1..Len(limitedUsages) : limitedUsages[i].CapacityBytes # 0
    /\ \A i \in 1..Len(table.rows) : table.rows[i].CapacityBytes # 0
    /\ (op = "GetUsages" /\ ~cluster.nodesErr) =>
         /\ err = "nil"
         /\ \A n \in 1..Len(cluster.nodes) :
              \A p \in 1..Len(cluster.nodes[n].pods) :
                \A k \in 1..Len(cluster.nodes[n].pods[p]) :
                  LET v == cluster.nodes[n].pods[p][k]
                  IN  (~cluster.nodes[n].err /\ v.PVCRef # NoRef /\ v.CapacityBytes # 0)
                        => \E i \in 1..Len(usages) :
                             /\ usages[i].PVC = v.PVCRef.Name
                             /\ usages[i].Namespace = v.PVCRef.Namespace

C6_Witness ==
  /\ pc = "done" /\ op = "GetUsages" /\ err = "nil"
  /\ Len(cluster.nodes) = 1
  /\ cluster.nodes[1].pods = << <<VolZ, VolC>> >>
  /\ usages = <<MakeUsage(VolC)>>

\* C7: one StartMonitoring makes at most 3 CreatePerformancePod calls, each
\* call after the first follows a call that failed for lack of resources,
\* and no call follows one that succeeded.
C7_AtMostThreeProvisionCalls ==
  /\ Len(createResults) <= 3
  /\ \A i \in 2..Len(createResults) : createResults[i - 1] = "not enough resource"
  /\ \A i \in 1..(Len(createResults) - 1) : createResults[i] # "nil"

C7_Witness ==
  createResults = <<"not enough resource", "not enough resource", "nil">>

\* C8: a CreatePerformancePod failure that is not for lack of resources is
\* the last call: StartMonitoring has returned an error, with no sleep
\* after that call, no readiness poll, no Monitor and no collector.
C8_OtherFailureAbortsAtOnce ==
  \A i \in 1..Len(createResults) :
    createResults[i] \notin {"nil", "not enough resource"} =>
      /\ i = Len(createResults)
      /\ smPc = "failed"
      /\ startErr # "nil"
      /\ sleeps = i - 1
      /\ readyPolls = 0
      /\ monitor = NoMonitor
      /\ collectors = 0

C8_Witness ==
  /\ smPc = "failed"
  /\ createResults = <<"not enough resource", "not enough resource", "other">>
  /\ sleeps = 2

\* C9: after three CreatePerformancePod failures for lack of resources
\* StartMonitoring does not fail: once the last backoff is over it has
\* returned a Monitor and no error, in fallback mode, with its collector
\* started.
C9_ExhaustedRetriesDegrade ==
  createResults = <<"not enough resource", "not enough resource", "not enough resource">> =>
    /\ startErr = "nil"
    /\ smPc \in {"backoff", "done"}
    /\ smPc = "backoff" => (sleeps = 2 /\ monitor = NoMonitor)
    /\ smPc = "done" =>
         /\ monitor.returned
         /\ monitor.useFallback
         /\ collectors = 1
         /\ readyPolls = 0

C9_Witness ==
  /\ smPc = "done"
  /\ Len(createResults) = 3
  /\ lastErr = "not enough resource"
  /\ monitor.returned /\ monitor.useFallback
  /\ collectors = 1

\* C10: StartMonitoring always returns: the readiness wait ends even when
\* the pod never reaches Running while every Get succeeds.
C10_StartMonitoringReturns == <>(smPc \in {"done", "failed"})

\* C11: when CreatePerformancePod succeeded and a Get of the readiness wait
\* returned an error, StartMonitoring has returned a Monitor and no error:
\* the Monitor names the created pod, is in fallback mode, and its
\* collector is started.
C11_ReadinessFailureDegrades ==
  (readyPolls > 0 /\ lastPhase = "") =>
    /\ lastErr = "nil"
    /\ smPc = "done"
    /\ startErr = "nil"
    /\ monitor = [returned |-> TRUE, perfPod |-> PerfPodName, useFallback |-> TRUE]
    /\ collectors = 1
    /\ colPc = "select"

C11_Witness ==
  /\ smPc = "done"
  /\ createResults = <<"not enough resource", "nil">>
  /\ readyPolls = 2 /\ lastPhase = ""
  /\ monitor.useFallback /\ monitor.perfPod = PerfPodName
  /\ collectors = 1

\* C12: a Monitor is returned with exactly one collectMetrics goroutine,
\* in fallback mode or not, and there is none without a Monitor; so one
\* goroutine at most assigns m.metrics.  The goroutine returns only after
\* the context was cancelled, which only Stop does.
C12_OneCollectorUntilCancel ==
  /\ collectors = (IF monitor.returned THEN 1 ELSE 0)
  /\ (colPc # "none") = monitor.returned
  /\ colPc = "exited" => ctxDone
  /\ ctxDone => stopPc # "idle"

C12_Witness ==
  /\ monitor.returned /\ monitor.useFallback
  /\ collectors = 1
  /\ cycles = 2 /\ metrics.Timestamp = 2
  /\ colPc = "exited"

\* The snapshot of the last cycle of a log that built one, ZeroMetrics when
\* none did.
RECURSIVE LastBuilt(_)
LastBuilt(log) ==
  IF log = <<>> THEN ZeroMetrics
  ELSE IF log[Len(log)].ok THEN log[Len(log)].metrics
  ELSE LastBuilt(SubSeq(log, 1, Len(log) - 1))

\* C13: a cycle that fails does not end the loop: without a cancel the
\* collector is at its select again after it, where the next tick starts
\* the next cycle, and it has returned only if the context was cancelled;
\* whenever no cycle is under way, m.metrics is the snapshot of the last
\* cycle that built one, whatever cycles failed before or after it.
C13_FailedCycleKeepsCollecting ==
  /\ colPc = "exited" => ctxDone
  /\ (colPc \in {"getPVC", "getLogs"}) = (Len(cycleLog) = cycles - 1)
  /\ (colPc \notin {"getPVC", "getLogs"}) = (Len(cycleLog) = cycles)
  /\ (cycleLog # <<>> /\ ~cycleLog[Len(cycleLog)].ok /\ Len(cycleLog) = cycles /\ ~ctxDone)
       => colPc = "select"
  /\ colPc \in {"select", "exited"} => metrics = LastBuilt(cycleLog)

C13_Witness ==
  /\ ~ctxDone /\ colPc = "select"
  /\ Len(cycleLog) = 2
  /\ ~cycleLog[1].ok /\ cycleLog[2].ok
  /\ metrics = cycleLog[2].metrics
  /\ metrics.Timestamp = 2

\* The snapshots the cycles so far have built.
Built == { cycleLog[i].metrics : i \in { j \in 1..Len(cycleLog) : cycleLog[j].ok } }

\* C14: whatever the interleaving of the GetLatestMetrics callers with the
\* collector, a call returns the zero-value Metrics or, field for field,
\* the snapshot one cycle built; and no caller holds the read lock while
\* the collector is between Lock and Unlock.
C14_ReadersSeeWholeSnapshots ==
  /\ lastGot \in {ZeroMetrics} \cup Built
  /\ ~(colPc = "write" /\ \E r \in Readers : rdPc[r] = "rlocked")

C14_Witness ==
  /\ rdPc["r1"] = "rlocked" /\ rdPc["r2"] = "rlocked"
  /\ colPc = "lock"
  /\ Len(cycleLog) = 2
  /\ lastGot = cycleLog[1].metrics /\ lastGot.Timestamp = 1
  /\ built.Timestamp = 2

\* C15: Stop cancels the context first.  On a Monitor not in fallback mode
\* it then sends one Delete, for the Monitor's diagnostic pod, and returns
\* an error exactly when that Delete failed; on a Monitor in fallback mode
\* it sends no Delete and returns nil.
C15_StopDeletesUnlessDegraded ==
  /\ stopPc = "idle" => (~ctxDone /\ deleteRequests = <<>>)
  /\ stopPc = "delete" => (ctxDone /\ ~monitor.useFallback /\ deleteRequests = <<>>)
  /\ stopPc = "returned" =>
       /\ ctxDone
       /\ IF monitor.useFallback
          THEN deleteRequests = <<>> /\ stopErr = "nil"
          ELSE /\ deleteRequests = <<PerfPodName>>
               /\ monitor.perfPod = PerfPodName
               /\ (stopErr # "nil") = podExists

C15_Witness ==
  /\ stopPc = "returned"
  /\ ~monitor.useFallback
  /\ deleteRequests = <<PerfPodName>>
  /\ stopErr = "error deleting performance pod"
  /\ podExists

\* C16: when StartMonitoring created the diagnostic pod, whether or not the
\* readiness wait then failed, and Stop has returned nil, a Delete for that
\* pod was sent and the cluster no longer holds it.
C16_NoPodOutlivesMonitor ==
  (stopPc = "returned" /\ stopErr = "nil"
     /\ \E i \in 1..Len(createResults) : createResults[i] = "nil")
    => /\ deleteRequests = <<PerfPodName>>
       /\ ~podExists

\* C17: once Stop has returned, m.metrics is not assigned again, so every
\* later GetLatestMetrics returns one and the same snapshot, the one
\* published before the cancel.
C17_NoWriteAfterStop ==
  [][stopPc = "returned" => metrics' = metrics]_vars

\* C18: once the context is cancelled no cycle begins: a tick in ticker.C
\* at the time of the cancel is not taken by the select.
C18_NoCycleAfterCancel ==
  [][ctxDone => cycles' = cycles]_vars

\* C19: when the ticker fires for the second time after the cancel, which
\* is more than one collection interval after it, the collector has
\* returned or is at its select, where a fair scheduler lets it return: it
\* is not inside a collection cycle.
C19_ExitsWithinOneInterval ==
  (ctxDone /\ lateTicks >= 2) => colPc \in {"select", "exited"}

\* C20: of two Monitors started for different claims of one namespace,
\* neither ever sends a Delete that hits the other's diagnostic pod, when
\* it starts or when it stops.
C20_MonitorsIndependent ==
  \A d \in podDeletes : d.by = d.owner

\* C21: when List returned no pod FindPodUsingPVC returns an error; when it
\* returned pods, FindPodUsingPVC returns no error and the name of one of
\* them, which is not empty.
C21_FindReturnsAListedPod ==
  (called /\ fn = "FindPodUsingPVC" /\ ~arg.listErr) =>
    IF arg.pods = <<>>
    THEN ret.err # "nil" /\ ret.name = <<>>
    ELSE /\ ret.err = "nil"
         /\ ret.name # <<>>
         /\ \E i \in 1..Len(arg.pods) : arg.pods[i].Name = ret.name

C21_Witness ==
  /\ called /\ fn = "FindPodUsingPVC" /\ ~arg.listErr
  /\ arg.pvcName = ClaimWeb
  /\ Len(arg.pods) = 2
  /\ \A i \in 1..2 : arg.pods[i].Phase = "Pending" /\ arg.pods[i].Volumes = <<>>
  /\ arg.pods[1].Name = Web \o Dash \o <<"0">>
  /\ ret = [name |-> Web \o Dash \o <<"0">>, err |-> "nil"]

\* The tier at which a pod matches a claim: 1 it declares the claim, 2 its
\* name starts with a pattern derived from the claim name, 3 its name
\* shares a segment of more than 3 characters with the claim name, 4 none
\* of these.
TierOf(pod, pvcName) ==
  IF \E k \in 1..Len(pod.Volumes) : pod.Volumes[k] = pvcName THEN 1
  ELSE IF \E k \in 1..Len(Patterns(pvcName)) : HasPrefix(pod.Name, Patterns(pvcName)[k]) THEN 2
  ELSE IF SharesPart(pod.Name, pvcName) THEN 3
  ELSE 4

\* C22: the pod FindPodUsingPVC returns matches at the lowest tier at which
\* any pod of the list matches; when that is tier 1, it is the first pod of
\* the list that declares the claim.
C22_LowestTierWins ==
  (called /\ fn = "FindPodUsingPVC" /\ ~arg.listErr /\ arg.pods # <<>>) =>
    \E r \in 1..Len(arg.pods) :
      /\ arg.pods[r].Name = ret.name
      /\ \A i \in 1..Len(arg.pods) :
           TierOf(arg.pods[r], arg.pvcName) <= TierOf(arg.pods[i], arg.pvcName)
      /\ TierOf(arg.pods[r], arg.pvcName) = 1 =>
           \A i \in 1..(r - 1) : TierOf(arg.pods[i], arg.pvcName) # 1

C22_Witness ==
  /\ called /\ fn = "FindPodUsingPVC" /\ ~arg.listErr
  /\ arg.pvcName = ClaimStrimzi
  /\ Len(arg.pods) = 3
  /\ arg.pods[1] = Pod(Web \o Dash \o Kafka, <<>>, "Running")
  /\ arg.pods[2] = Pod(Kafka \o Dash \o <<"0">>, <<>>, "Running")
  /\ arg.pods[3] = Pod(Kafka \o Dash \o Pool \o Dash \o <<"0">>, <<NoPVC, ClaimStrimzi>>, "Pending")
  /\ ret.name = Kafka \o Dash \o Pool \o Dash \o <<"0">>

\* How many leading characters of a filter text are its operator: the
\* first if it is >, < or =, and the second too if it is =.
OperatorLen(text) ==
  IF text = <<>> \/ text[1] \notin {">", "<", "="} THEN 0
  ELSE IF Len(text) > 1 /\ text[2] = "=" THEN 2
  ELSE 1

Malformed(text) ==
  text # <<>> /\ SubSeq(text, OperatorLen(text) + 1, Len(text)) \notin Numerals

\* C24: for a malformed filter text FilterUsages returns an error and no
\* records, whatever its input; a table caller whose GetUsages succeeded
\* then stops: it computes no limited list and shows no table.
C24_MalformedFilterStopsPipeline ==
  (pc = "done" /\ Malformed(filter)) =>
    /\ op = "FilterUsages" => (err = "filter" /\ filteredUsages = <<>>)
    /\ op \in Callers =>
         /\ err \in {"nodes", "filter"}
         /\ err = "nodes" <=> cluster.nodesErr
         /\ filteredUsages = <<>>
         /\ limitedUsages = <<>>
         /\ table = NoTable

C24_Witness ==
  /\ pc = "done" /\ op = "UpdateTable"
  /\ filter = <<"x">>
  /\ Len(usages) = 2
  /\ err = "filter"
  /\ table = NoTable

\* Arithmetic on base-1024 numbers, for stating what a size comes to.
RECURSIVE MulSmallCarry(_, _, _)
MulSmallCarry(b, c, carry) ==
  IF b = <<>> THEN FromInt(carry)
  ELSE <<(b[1] * c + carry) % Limb>>
         \o MulSmallCarry(Tail(b), c, (b[1] * c + carry) \div Limb)

MulSmall(b, c) == Norm(MulSmallCarry(b, c, 0))

RECURSIVE AddOne(_)
AddOne(b) ==
  IF b = <<>> THEN <<1>>
  ELSE IF b[1] + 1 < Limb THEN <<b[1] + 1>> \o Tail(b)
  ELSE <<0>> \o AddOne(Tail(b))

RECURSIVE BigLess(_, _)
BigLess(a, b) ==
  IF Len(a) # Len(b) THEN Len(a) < Len(b)
  ELSE IF a = <<>> THEN FALSE
  ELSE IF a[Len(a)] # b[Len(b)] THEN a[Len(a)] < b[Len(b)]
  ELSE BigLess(SubSeq(a, 1, Len(a) - 1), SubSeq(b, 1, Len(b) - 1))

ClaimedPower(x) ==
  CASE x = <<>> -> 0 [] x = <<"K">> -> 1 [] x = <<"M">> -> 2 [] x = <<"G">> -> 3
    [] x = <<"T">> -> 4 [] x = <<"P">> -> 5 [] x = <<"E">> -> 6 [] OTHER -> -1

\* ret is (n / 10^f) * 1024^k with what lies behind the point cut off, and
\* with the sign of the numeral.
IsScaled(v, k) ==
  LET exact == Shift(FromInt(v.n), k)
  IN  /\ ret.neg = (v.neg /\ ret.mag # <<>>)
      /\ ~BigLess(exact, MulSmall(ret.mag, Pow10(v.f)))
      /\ BigLess(exact, MulSmall(AddOne(ret.mag), Pow10(v.f)))

\* C25: parseHumanSize multiplies a number followed by K, M, G, T, P or E
\* by 1024 to the power 1 to 6, takes a number without suffix as bytes,
\* cuts a fractional result toward zero, and gives 0 for an empty or
\* unparseable token.
C25_SizeIsScaledNumber ==
  (fn = "parseHumanSize" /\ called) =>
    IF /\ arg.numeral \in { v.text : v \in NumberNumerals }
       /\ ClaimedPower(arg.suffix) >= 0
    THEN \A v \in NumberNumerals :
           v.text = arg.numeral => IsScaled(v, ClaimedPower(arg.suffix))
    ELSE ret = Int64(FALSE, <<>>)

\* C26: in a Monitor that is not degraded, a cycle whose extraction fails,
\* because the logs are missing, or lack the DISK_USAGE markers, or hold a
\* disk-free line of fewer than six fields, returns no error and a
\* snapshot with half the capacity as used bytes and that half's
\* percentage of the capacity.
C26_FailedExtractionUsesPlaceholder ==
  ( /\ fn = "getMetricsFromPod" /\ called
    /\ ~arg.useFallback /\ ~arg.pvc.err
    /\ arg.logs.kind \in {"error", "empty", "unparsed", "short"} )
  => /\ ~ret.err
     /\ ret.metrics.DiskSpace = arg.pvc.storage
     /\ ret.metrics.DiskSpaceUsed = arg.pvc.storage \div 2
     /\ ret.metrics.DiskSpacePct = UsedPct(arg.pvc.storage \div 2, arg.pvc.storage)

\* C27: whatever the length of the claim name, the derived pod name has at
\* most 63 characters and is fixed by the claim name: it is the start of
\* "pvc-perf-monitor-" followed by the claim name, and claim names that
\* agree in their first 50 characters derive the same name.
C27_PodNameBounded ==
  (fn = "perfPodName" /\ called) =>
    /\ Len(ret) <= PodNameLimit
    /\ HasPrefix(Prefix \o arg, ret)
    /\ \A other \in NameInputs :
         SafePVCName(other) = SafePVCName(arg) => PerfPodNameFor(other) = ret

C27_Witness ==
  /\ fn = "perfPodName" /\ called
  /\ Len(arg) > PodNameLimit
  /\ Len(ret) = PodNameLimit

\* C28 as stated: the derived pod name never ends with "-", whatever the
\* claim name.
C28_NeverEndsWithDash ==
  (fn = "perfPodName" /\ called) => (ret # <<>> /\ ret[Len(ret)] # "-")

\* C28, amended: the derived pod name does not end with "-" when the claim
\* name is long enough for the name to be cut, or is not empty and does
\* not itself end with "-".
C28_NoDashAfterCut ==
  ( /\ fn = "perfPodName" /\ called
    /\ \/ Len(arg) > PodNameLimit - Len(Prefix)
       \/ arg # <<>> /\ arg[Len(arg)] # "-" )
  => (ret # <<>> /\ ret[Len(ret)] # "-")

C28_Witness ==
  /\ fn = "perfPodName" /\ called
  /\ Len(arg) > PodNameLimit - Len(Prefix)
  /\ arg[PodNameLimit - Len(Prefix)] = "-"
  /\ Len(ret) < PodNameLimit
  /\ ret[Len(ret)] = "a"

\* The places of a kind of request in the history of the call.
Places(kinds) == { i \in 1..Len(cpRequests) : cpRequests[i] \in kinds }

\* The state part of C29.
ProvisionInOrder ==
  /\ Cardinality(Places({"PollFound", "PollError"})) <= PollLimit
  /\ \A c \in Places({"Create"}) :
       /\ \A d \in Places({"Delete"}) : d < c
       /\ Places({"GetFound"}) # {} =>
            /\ \E d \in Places({"Delete"}) : d < c
            /\ \/ \E q \in Places({"PollError"}) : q < c
               \/ Cardinality(Places({"PollFound"})) = PollLimit
  /\ \A g \in Places({"GetFound"}) :
       g < Len(cpRequests) => cpRequests[g + 1] = "Delete"
  /\ \A q \in Places({"PollFound", "PollError"}) :
       \E d \in Places({"Delete"}) : d < q

\* C29: when the Get of the derived name finds a pod, CreatePerformancePod
\* sends the Delete before anything else, then looks for the pod at most
\* 30 times, and sends the Create only after a look that did not find the
\* pod or after 30 looks that did; no Create comes before the Delete; and
\* the wait ends: a call in the loop reaches its Create.
C29_DeleteThenBoundedWaitThenCreate ==
  /\ []ProvisionInOrder
  /\ (cpPc \in {"poll", "pollSleep"}) ~> (cpPc = "create")

C29_Witness ==
  /\ cpPc = "returned"
  /\ Len(cpRequests) > 2
  /\ cpRequests[1] = "GetFound"
  /\ cpRequests[2] = "Delete"
  /\ Cardinality(Places({"PollFound"})) = PollLimit
  /\ cpRequests[Len(cpRequests)] = "Create"
  /\ cpErr = "error creating performance pod"

\* The records of a sequence whose percentage used equals that of u.
Tied(us, u) ==
  SelectSeq(us, LAMBDA v : ~UsageLess(u, v) /\ ~UsageLess(v, u))

\* C30: records of equal percentage used leave GetUsages in the order in
\* which the loops over nodes, pods and volumes met them.
C30_SortIsStable ==
  (pc = "done" /\ op = "GetUsages" /\ err = "nil") =>
    \A i \in 1..Len(usages) :
      Tied(usages, usages[i]) = Tied(NodeLoop(<<>>, cluster.nodes), usages[i])

\* C31: a filter text that ParseFilter accepts comes with one of the five
\* operators > >= < <= =, or with the empty operator when the text is
\* empty, so that FilterUsages always applies one of its five comparisons.
C31_AcceptedOperatorIsOneOfFive ==
  (called /\ fn = "ParseFilter" /\ ~ret.err) =>
    /\ ret.operator \in FiveOperators \cup {<<>>}
    /\ ret.operator = <<>> <=> arg = <<>>

\* usages[i] is the record of the volume at pos: its namespace, claim name
\* and byte figures, and used / capacity * 100 as percentage.
RecordOf(c, pos, u) ==
  LET v == VolumeAt(c, pos)
  IN  /\ u.Namespace = v.PVCRef.Namespace
      /\ u.PVC = v.PVCRef.Name
      /\ u.CapacityBytes = v.CapacityBytes
      /\ u.UsedBytes = v.UsedBytes
      /\ u.AvailableBytes = v.AvailableBytes
      /\ u.PercentageUsed.den # 0
      /\ u.PercentageUsed.num * v.CapacityBytes = 100 * v.UsedBytes * u.PercentageUsed.den

\* C32: the records of GetUsages match, one to one, the (node, pod, volume)
\* places of the answering nodes whose volume has a claim reference and a
\* capacity other than 0: a claim reported at k places has k records, a
\* volume without claim reference none.
C32_OneRecordPerReportedVolume ==
  (pc = "done" /\ op = "GetUsages" /\ err = "nil") =>
    /\ Len(usages) = Cardinality(Reported(cluster))
    /\ \E f \in [Reported(cluster) -> 1..Len(usages)] :
         /\ \A p, q \in Reported(cluster) : p # q => f[p] # f[q]
         /\ \A p \in Reported(cluster) : RecordOf(cluster, p, usages[f[p]])

C32_Witness ==
  /\ pc = "done" /\ op = "GetUsages" /\ err = "nil"
  /\ Len(cluster.nodes) = 2
  /\ cluster.nodes[1].pods = << <<VolN>>, <<VolB>> >>
  /\ cluster.nodes[2].pods = << <<VolN>>, <<VolB>> >>
  /\ usages = <<MakeUsage(VolB), MakeUsage(VolB)>>

\* The first pod of the list, in list order, that satisfies Test is the
\* one named name.
FirstIs(pods, name, Test(_)) ==
  \E r \in 1..Len(pods) :
    /\ Test(pods[r])
    /\ \A i \in 1..(r - 1) : ~Test(pods[i])
    /\ pods[r].Name = name

RunningKafka(pod) == pod.Phase = "Running" /\ Contains(ToLower(pod.Name), Kafka)

IsRunning(pod) == pod.Phase = "Running"

\* C33: when no pod of the list matches at tiers 1 to 3, FindPodUsingPVC
\* returns the first Running pod whose lower-cased name contains "kafka";
\* without such a pod the first Running pod; without a Running pod the
\* first pod of the list.
C33_FallbackOrder ==
  ( /\ called /\ fn = "FindPodUsingPVC" /\ ~arg.listErr /\ arg.pods # <<>>
    /\ \A i \in 1..Len(arg.pods) : TierOf(arg.pods[i], arg.pvcName) = 4 )
  => /\ ret.err = "nil"
     /\ IF \E i \in 1..Len(arg.pods) : RunningKafka(arg.pods[i])
        THEN FirstIs(arg.pods, ret.name, RunningKafka)
        ELSE IF \E i \in 1..Len(arg.pods) : IsRunning(arg.pods[i])
        THEN FirstIs(arg.pods, ret.name, IsRunning)
        ELSE ret.name = arg.pods[1].Name

C33_Witness ==
  /\ called /\ fn = "FindPodUsingPVC" /\ ~arg.listErr
  /\ arg.pvcName = ClaimWeb
  /\ Len(arg.pods) = 3
  /\ arg.pods[1].Phase = "Pending"
  /\ arg.pods[2].Phase = "Running" /\ ~Contains(ToLower(arg.pods[2].Name), Kafka)
  /\ arg.pods[3].Phase = "Running" /\ arg.pods[3].Name = <<"m", "y", "K">> \o Tail(Kafka)
  /\ \A i \in 1..3 : TierOf(arg.pods[i], arg.pvcName) = 4
  /\ ret.name = arg.pods[3].Name

\* C34: in a cycle of a Monitor that is not degraded, a disk-free line
\* whose total and available are both above 0 gives the snapshot the
\* used-percent (total - available) / total * 100, whatever the line's
\* percent field is, a field that is no number included.
C34_PercentFromTotalAndAvailable ==
  ( /\ called /\ fn = "getMetricsFromPod"
    /\ ~arg.useFallback /\ ~arg.pvc.err
    /\ arg.logs.kind = "df" /\ arg.logs.total > 0 /\ arg.logs.available > 0 )
  => /\ ~ret.err
     /\ ret.metrics.DiskSpacePct.den # 0
     /\ ret.metrics.DiskSpacePct.num * arg.logs.total
          = 100 * (arg.logs.total - arg.logs.available) * ret.metrics.DiskSpacePct.den

\* C35: every pod specification CreatePerformancePod hands to Create names
\* the node that the Get of the target pod returned, has one container,
\* not privileged, with one mount, read-only, and one volume, the claim,
\* read-only, and the restart policy Never; and when the Get of the target
\* pod fails the call returns an error without a Delete or a Create.
C35_PodPinnedAndReadOnly ==
  /\ \A i \in 1..Len(cpSubmitted) :
       LET spec == cpSubmitted[i]
       IN  /\ cpPod.fetched
           /\ spec.NodeName = cpPod.NodeName
           /\ Len(spec.Containers) = 1
           /\ ~spec.Containers[1].Privileged
           /\ Len(spec.Containers[1].VolumeMounts) = 1
           /\ spec.Containers[1].VolumeMounts[1].ReadOnly
           /\ Len(spec.Volumes) = 1
           /\ spec.Volumes[1].ClaimName = cpArgs.pvcName
           /\ spec.Volumes[1].ReadOnly
           /\ spec.Containers[1].VolumeMounts[1].Name = spec.Volumes[1].Name
           /\ spec.RestartPolicy = "Never"
  /\ Len(cpSubmitted) = Cardinality(Places({"Create"}))
  /\ (cpPc = "returned" /\ ~cpPod.fetched) =>
       /\ cpErr = "error getting target pod"
       /\ cpRequests = <<>>
       /\ cpSubmitted = <<>>

C35_Witness ==
  /\ cpPc = "returned" /\ cpErr = "nil"
  /\ Len(cpSubmitted) = 1
  /\ cpSubmitted[1].NodeName = "n1"
  /\ cpNode = "n2"
  /\ cpSubmitted[1].Volumes[1].ClaimName = Rep("a", 46) \o <<"0">>

\* C36: a step changes the Monitor's snapshot only by putting the snapshot
\* a cycle built in its place, whole; the step in which a cycle's Get of
\* the claim fails leaves it as it is, and with it what GetLatestMetrics
\* returns, timestamp included.
C36_SnapshotReplacedWholeOrKept ==
  [][ /\ metrics' # metrics =>
           /\ colPc = "write"
           /\ metrics' = built
           /\ \E i \in 1..Len(cycleLog) : cycleLog[i].ok /\ cycleLog[i].metrics = metrics'
      /\ (Len(cycleLog') > Len(cycleLog) /\ ~cycleLog'[Len(cycleLog')].ok) =>
           /\ metrics' = metrics
           /\ built' = built
    ]_vars

C36_Witness ==
  /\ colPc = "select"
  /\ Len(cycleLog) = 2 /\ cycles = 2
  /\ cycleLog[1].ok /\ ~cycleLog[2].ok
  /\ metrics = cycleLog[1].metrics
  /\ metrics.Timestamp = 1
  /\ lastGot = metrics

\* C37: a cycle of a degraded Monitor reads the claim and sends no GetLogs,
\* and its snapshot counts the requested capacity divided by 3, remainder
\* dropped, as used, whatever the logs would hold; a cycle of a Monitor
\* that is not degraded sends GetLogs, and without logs counts the capacity
\* divided by 2.
C37_DegradedCycleReadsClaimOnly ==
  (called /\ fn = "getMetricsFromPod" /\ ~arg.pvc.err) =>
    /\ arg.useFallback =>
         /\ ret.requests = <<"GetPVC">>
         /\ ~ret.err
         /\ ret.metrics.DiskSpace = arg.pvc.storage
         /\ 3 * ret.metrics.DiskSpaceUsed <= arg.pvc.storage
         /\ arg.pvc.storage < 3 * (ret.metrics.DiskSpaceUsed + 1)
    /\ ~arg.useFallback =>
         /\ ret.requests = <<"GetPVC", "GetLogs">>
         /\ arg.logs.kind \in {"error", "empty"} =>
              /\ 2 * ret.metrics.DiskSpaceUsed <= arg.pvc.storage
              /\ arg.pvc.storage < 2 * (ret.metrics.DiskSpaceUsed + 1)

C37_Witness ==
  /\ called /\ fn = "getMetricsFromPod"
  /\ arg.useFallback /\ arg.pvc = [err |-> FALSE, storage |-> 7]
  /\ arg.logs.kind = "df" /\ arg.logs.total = 8 /\ ~arg.logs.percentErr
  /\ ret.requests = <<"GetPVC">>
  /\ ret.metrics.DiskSpaceUsed = 2
  /\ ret.metrics.DiskSpace = 7

\* C38: the useFallback of a Monitor is the one StartMonitoring returned it
\* with: no cycle, GetLatestMetrics or Stop changes the Monitor's fields,
\* a cycle without logs included; and Stop sends its Delete or not by the
\* flag as it was at the return.
C38_DegradedFlagFixedAtStart ==
  [][ /\ monitor.returned => monitor' = monitor
      /\ (stopPc # "returned" /\ stopPc' = "returned") =>
           ((deleteRequests' = <<>>) <=> monitor.useFallback)
    ]_vars

C38_Witness ==
  /\ monitor.returned /\ ~monitor.useFallback
  /\ stopPc = "returned" /\ deleteRequests # <<>>
  /\ colPc = "exited"
  /\ Len(cycleLog) = 2
  /\ cycleLog[1].ok /\ cycleLog[1].metrics.DiskSpaceUsed = storageBytes \div 2
  /\ cycleLog[2].ok /\ cycleLog[2].metrics.DiskSpaceUsed = storageBytes \div 2
  /\ \E r \in Readers : rdPc[r] = "rlocked"

\* C39: a cycle that extracts no figures from a disk-free line, degraded or
\* not, gives a snapshot whose used-percent is a number from 0 to 100,
\* also when the claim requests a storage of 0: no division by a capacity
\* of 0 takes place.
C39_PercentDefinedAtZeroCapacity ==
  ( /\ called /\ fn = "getMetricsFromPod" /\ ~arg.pvc.err
    /\ arg.useFallback \/ arg.logs.kind # "df" )
  => /\ ~ret.err
     /\ ret.metrics.DiskSpacePct.den > 0
     /\ ret.metrics.DiskSpacePct.num >= 0
     /\ ret.metrics.DiskSpacePct.num <= 100 * ret.metrics.DiskSpacePct.den
====
